---------------------------- MODULE Spec2Model ----------------------------
(***************************************************************************)
(* A model of qlever-petrimaps' geometry cache and requestor               *)
(* (src/qlever-petrimaps/server/Requestor.cpp, which holds both            *)
(* Requestor.cpp and GeomCache.cpp).                                       *)
(*                                                                         *)
(* Fifteen specifications share the module:                                *)
(*   Spec     the cache build: GeomCache::request (the paged, fragmented   *)
(*            WKT pass and the vector build) followed by                   *)
(*            GeomCache::requestIds (the fragmented binary-id pass and the *)
(*            sort);                                                       *)
(*   SpecRel  GeomCache::getRelObjects applied to bounded sorted inputs;   *)
(*   SpecRelLive the same under weak fairness, for termination;            *)
(*   SpecReq  threads calling Requestor::request on one Requestor;         *)
(*   SpecSeq  calls of Requestor::request one after the other;             *)
(*   SpecFault the cache build with transfers that fail and write          *)
(*            callbacks that throw;                                        *)
(*   SpecLine GeomCache::insertLine followed by the readers of the stored  *)
(*            line;                                                        *)
(*   SpecDisk GeomCache::serializeToDisk followed by GeomCache::fromDisk;  *)
(*   SpecNear Requestor::getNearest on a ready Requestor;                  *)
(*   SpecNearThreads threads calling Requestor::getNearest on one ready    *)
(*            Requestor;                                                   *)
(*   SpecRows GeomCache::parse applied to whole rows;                      *)
(*   SpecIds  GeomCache::requestIds on a cache of any size;                *)
(*   SpecBox  the bounding-box phase of Requestor::request, split over     *)
(*            the worker threads;                                          *)
(*   SpecSent the same phase for objects without geometry, followed by     *)
(*            Requestor::getNearest;                                       *)
(*   SpecPix  the line-pixel grid section of Requestor::request.           *)
(*                                                                         *)
(* Strings are sequences of one-character strings.  Indices into strings   *)
(* are the 0-based indices of the C++ code; At(a, p) reads a[p].           *)
(***************************************************************************)
EXTENDS Integers, Sequences, FiniteSets, TLC

(***************************************************************************)
(* Bounds of the model                                                     *)
(***************************************************************************)
\* rows in the backend's result
MaxRows == 2
\* requestPart calls of one GeomCache::request (the loop of lines 966-970 is
\* unbounded when a page keeps contributing a row)
MaxPages == 3
\* width of ID_TYPE in bits (uint32_t in the program)
IdBits == 16
\* the longest fragment of a transfer that is not the whole of what is left
MaxFrag == 3
\* the backend's qids are the numbers right after QidBase
QidBase == 254
\* the longest ids and qidToId that getRelObjects is applied to, and the
\* largest qid in them
MaxRel == 3
\* calls of Requestor::request
MaxCalls == 3
\* the vertices of a line handed to insertLine on its own
MaxVertices == 2
\* the points and the mappings of a cache that is written to disk
MaxStored == 2

(***************************************************************************)
(* Characters and strings                                                  *)
(***************************************************************************)
NL == "\n"
TAB == "\t"
CR == "\r"
NPOS == -1

At(a, p) == a[p + 1]

Min(a, b) == IF a < b THEN a ELSE b

\* std::string::rfind(pfx, 0) != npos: a starts with pfx
StartsWith(a, pfx) ==
    /\ Len(a) >= Len(pfx)
    /\ \A k \in 1..Len(pfx) : a[k] = pfx[k]

\* std::string::find(ch, p) and memchr(a.c_str() + p, ch, a.size() - p):
\* the index of the first ch at or after p, NPOS when there is none
RECURSIVE Find(_, _, _)
Find(a, ch, p) ==
    IF p >= Len(a) THEN NPOS
    ELSE IF At(a, p) = ch THEN p
    ELSE Find(a, ch, p + 1)

Digits == <<"0", "1", "2", "3", "4", "5", "6", "7", "8", "9">>

IsDigit(ch) == \E d \in 1..10 : Digits[d] = ch

DigitVal(ch) == (CHOOSE d \in 1..10 : Digits[d] = ch) - 1

RECURSIVE atofDigits(_, _, _)
atofDigits(a, p, acc) ==
    IF p < Len(a) /\ IsDigit(At(a, p))
    THEN atofDigits(a, p + 1, acc * 10 + DigitVal(At(a, p)))
    ELSE acc

\* util::atof(a.c_str() + p, 10) on the integer literals of the catalogue:
\* an optional sign and a run of digits, 0 when no digit follows
atof(a, p) ==
    IF p < Len(a) /\ At(a, p) = "-"
    THEN 0 - atofDigits(a, p + 1, 0)
    ELSE atofDigits(a, p, 0)

(***************************************************************************)
(* The WKT literals the backend serves, in the backend's ORDER BY ?g order *)
(***************************************************************************)
\* "POINT(1 2)"
WktPoint ==
    <<"\"", "P", "O", "I", "N", "T", "(", "1", " ", "2", ")", "\"">>

\* "LINESTRING(0 0,1 1)"
WktLine ==
    <<"\"", "L", "I", "N", "E", "S", "T", "R", "I", "N", "G", "(", "0", " ",
    "0", ",", "1", " ", "1", ")", "\"">>

\* "POLYGON((0 0,1 0,0 1,0 0))"
WktPolygon ==
    <<"\"", "P", "O", "L", "Y", "G", "O", "N", "(", "(", "0", " ", "0", ",",
    "1", " ", "0", ",", "0", " ", "1", ",", "0", " ", "0", ")", ")", "\"">>

\* "MULTILINESTRING((0 0,1 1),(2 2,3 3))"
WktMultiLine ==
    <<"\"", "M", "U", "L", "T", "I", "L", "I", "N", "E", "S", "T", "R", "I",
    "N", "G", "(", "(", "0", " ", "0", ",", "1", " ", "1", ")", ",", "(",
    "2", " ", "2", ",", "3", " ", "3", ")", ")", "\"">>

\* "MULTIPOLYGON(((0 0,1 0,0 1,0 0)),((2 2,3 2,2 3,2 2)))"
WktMultiPolygon ==
    <<"\"", "M", "U", "L", "T", "I", "P", "O", "L", "Y", "G", "O", "N", "(",
    "(", "(", "0", " ", "0", ",", "1", " ", "0", ",", "0", " ", "1", ",",
    "0", " ", "0", ")", ")", ",", "(", "(", "2", " ", "2", ",", "3", " ",
    "2", ",", "2", " ", "3", ",", "2", " ", "2", ")", ")", ")", "\"">>

\* "X": a value that is no geometry
WktOther ==
    <<"\"", "X", "\"">>

\* "POINT(0 90)": a point at the pole, whose projection is not finite
WktPole ==
    <<"\"", "P", "O", "I", "N", "T", "(", "0", " ", "9", "0", ")", "\"">>

Catalogue ==
    <<WktPoint, WktLine, WktPolygon, WktMultiLine, WktMultiPolygon, WktOther,
      WktPole>>

\* the prefixes GeomCache::parse looks for
PfxPoint ==
    <<"\"", "P", "O", "I", "N", "T", "(">>

PfxLine ==
    <<"\"", "L", "I", "N", "E", "S", "T", "R", "I", "N", "G", "(">>

PfxMultiLine ==
    <<"\"", "M", "U", "L", "T", "I", "L", "I", "N", "E", "S", "T", "R", "I",
    "N", "G", "(">>

PfxPolygon ==
    <<"\"", "P", "O", "L", "Y", "G", "O", "N", "(">>

PfxMultiPolygon ==
    <<"\"", "M", "U", "L", "T", "I", "P", "O", "L", "Y", "G", "O", "N", "(">>

(***************************************************************************)
(* Identifier spaces                                                       *)
(***************************************************************************)
\* std::numeric_limits<ID_TYPE>::max()
ID_MAX == 2 ^ IdBits - 1

\* the first line GID
I_OFFSET == 2 ^ (IdBits - 1)

IdMapping(qid, id) == [qid |-> qid, id |-> id]

\* IdMapping's operator<: the order of the qids
IdMappingLess(a, b) == a.qid < b.qid

(***************************************************************************)
(* Geometry helpers                                                        *)
(***************************************************************************)
FPoint(x, y) == [x |-> x, y |-> y]

\* std::numeric_limits<float>::max(), and the value standing for infinity
FloatMax == 1000000

Infinity == FloatMax + 1

\* projected units per degree
MercScale == 10

\* util::geo::latLngToWebMerc: x is linear in the longitude, y grows with
\* the latitude and is infinite at the poles
latLngToWebMerc(p) ==
    FPoint(p.x * MercScale,
           IF p.y >= 90 THEN Infinity
           ELSE IF p.y <= -90 THEN 0 - Infinity
           ELSE p.y * MercScale)

pointValid(p) ==
    /\ ~(p.y > FloatMax)
    /\ ~(p.y < 0 - FloatMax)
    /\ ~(p.x > FloatMax)
    /\ ~(p.x < 0 - FloatMax)

\* truncation toward zero, as a float-to-integer conversion does
TruncDiv(a, b) == IF a >= 0 THEN a \div b ELSE 0 - ((0 - a) \div b)

SqDist(a, b) == (a.x - b.x) * (a.x - b.x) + (a.y - b.y) * (a.y - b.y)

\* util::geo::distToSegment(a, b, p), squared and scaled by |ab|^2 (by 1
\* when a = b), so that distances to one segment compare as integers
SegDistScaled(a, b, p) ==
    LET d2 == SqDist(a, b)
        dot == (p.x - a.x) * (b.x - a.x) + (p.y - a.y) * (b.y - a.y)
        cross == (b.x - a.x) * (p.y - a.y) - (b.y - a.y) * (p.x - a.x)
    IN  IF d2 = 0 THEN SqDist(a, p)
        ELSE IF dot <= 0 THEN SqDist(a, p) * d2
        ELSE IF dot >= d2 THEN SqDist(b, p) * d2
        ELSE cross * cross

SegScale(a, b) == IF SqDist(a, b) = 0 THEN 1 ELSE SqDist(a, b)

\* the first interior index (1-based) farthest from the chord of g
RECURSIVE FarthestFrom(_, _, _)
FarthestFrom(g, i, best) ==
    IF i >= Len(g) THEN best
    ELSE IF SegDistScaled(g[1], g[Len(g)], g[i])
              > SegDistScaled(g[1], g[Len(g)], g[best])
         THEN FarthestFrom(g, i + 1, i)
         ELSE FarthestFrom(g, i + 1, best)

\* util::geo::simplify(g, eps): Douglas-Peucker
RECURSIVE simplify(_, _)
simplify(g, eps) ==
    IF Len(g) < 3 THEN g
    ELSE LET m == FarthestFrom(g, 2, 2)
         IN  IF SegDistScaled(g[1], g[Len(g)], g[m])
                   > eps * eps * SegScale(g[1], g[Len(g)])
             THEN simplify(SubSeq(g, 1, m), eps)
                      \o Tail(simplify(SubSeq(g, m, Len(g)), eps))
             ELSE <<g[1], g[Len(g)]>>

\* the least n >= 1 with (n * d)^2 >= sq
RECURSIVE Pieces(_, _, _)
Pieces(sq, d, n) == IF n * n * d * d >= sq THEN n ELSE Pieces(sq, d, n + 1)

\* the points put between a and b so that no piece is longer than d
Between(a, b, d) ==
    LET n == Pieces(SqDist(a, b), d, 1)
    IN  [k \in 1..(n - 1) |->
            FPoint(a.x + TruncDiv((b.x - a.x) * k, n),
                   a.y + TruncDiv((b.y - a.y) * k, n))]

\* util::geo::densify(g, d)
RECURSIVE densify(_, _)
densify(g, d) ==
    IF Len(g) < 2 THEN g
    ELSE <<g[1]>> \o Between(g[1], g[2], d) \o densify(Tail(g), d)

\* the loop of GeomCache::parseLineString: the valid vertices from p up to
\* the first ')' at or after the p it was called with
RECURSIVE lineVertices(_, _, _)
lineVertices(a, p, end) ==
    LET sp == Find(a, " ", p)
        point == latLngToWebMerc(
                     FPoint(atof(a, p), IF sp = NPOS THEN 0 ELSE atof(a, sp + 1)))
        here == IF pointValid(point) THEN <<point>> ELSE <<>>
        n == Find(a, ",", p)
    IN  IF n = NPOS \/ n > end THEN here
        ELSE here \o lineVertices(a, n + 1, end)

parseLineString(a, p) ==
    densify(simplify(lineVertices(a, p, Find(a, ")", p)), 3), 200 * 3)

parsePoint(a, p) ==
    LET sp == Find(a, " ", p)
    IN  latLngToWebMerc(
            FPoint(atof(a, p), IF sp = NPOS THEN 0 ELSE atof(a, sp + 1)))

(***************************************************************************)
(* The M-coord stream                                                      *)
(***************************************************************************)
M_COORD_GRANULARITY == 16384

\* a marker coordinate carries the marker bit
mCoord(c) ==
    IF c >= 0 THEN c + M_COORD_GRANULARITY ELSE c - M_COORD_GRANULARITY

isMCoord(c) == c >= M_COORD_GRANULARITY \/ c <= 0 - M_COORD_GRANULARITY - 1

rmCoord(c) ==
    IF c >= 0 THEN c - M_COORD_GRANULARITY ELSE c + M_COORD_GRANULARITY

RECURSIVE MinOver(_, _, _)
MinOver(l, i, cur) ==
    IF i > Len(l) THEN cur
    ELSE MinOver(l, i + 1,
                 FPoint(IF l[i].x < cur.x THEN l[i].x ELSE cur.x,
                        IF l[i].y < cur.y THEN l[i].y ELSE cur.y))

RECURSIVE MaxOver(_, _, _)
MaxOver(l, i, cur) ==
    IF i > Len(l) THEN cur
    ELSE MaxOver(l, i + 1,
                 FPoint(IF l[i].x > cur.x THEN l[i].x ELSE cur.x,
                        IF l[i].y > cur.y THEN l[i].y ELSE cur.y))

\* util::geo::getBoundingBox of a non-empty line
getBoundingBox(l) == [ll |-> MinOver(l, 2, l[1]), ur |-> MaxOver(l, 2, l[1])]

\* the range of an int16_t
Int16Min == 0 - 2 ^ 15

Int16Max == 2 ^ 15 - 1

\* an integer narrowed to int16_t
Int16(v) == ((v - Int16Min) % 2 ^ 16) + Int16Min

\* what the conversion of a float outside the range of int16_t, which is
\* undefined, can yield
Wild == {0, Int16Min, Int16Max}

\* a float converted to int16_t; wild is the outcome where it is undefined
toInt16(v, wild) == IF v >= Int16Min /\ v <= Int16Max THEN v ELSE wild

\* the major origin of the float v (lines 1170, 1189, 1210)
MajorOf(v, wild) == toInt16(TruncDiv(v, M_COORD_GRANULARITY), wild)

\* the marker entry of the major origin (mainX, mainY)
MarkerOf(mainX, mainY) ==
    FPoint(Int16(mCoord(mainX)), Int16(mCoord(mainY)))

\* the plain entry of the point p under the major origin (mainX, mainY)
PlainOf(p, mainX, mainY, wild) ==
    FPoint(toInt16(p.x - mainX * M_COORD_GRANULARITY, wild),
           toInt16(p.y - mainY * M_COORD_GRANULARITY, wild))

\* the loop of lines 1209-1230: the entries of the vertices from i on, with
\* (mainX, mainY) the major origin in force
RECURSIVE lineEntries(_, _, _, _, _)
lineEntries(l, i, mainX, mainY, wild) ==
    IF i > Len(l) THEN <<>>
    ELSE (IF MajorOf(l[i].x, wild) # mainX \/ MajorOf(l[i].y, wild) # mainY
          THEN <<MarkerOf(MajorOf(l[i].x, wild), MajorOf(l[i].y, wild))>>
          ELSE <<>>)
         \o <<PlainOf(l[i], MajorOf(l[i].x, wild), MajorOf(l[i].y, wild),
                      wild)>>
         \o lineEntries(l, i + 1, MajorOf(l[i].x, wild),
                        MajorOf(l[i].y, wild), wild)

\* the entries of the bounding box bbox and of the vertices (lines
\* 1168-1230)
boxEntries(l, bbox, mainX, mainY, mainXLoc, mainYLoc, wild) ==
    (IF mainX # 0 \/ mainY # 0 THEN <<MarkerOf(mainX, mainY)>> ELSE <<>>)
    \o <<PlainOf(bbox.ll, mainX, mainY, wild)>>
    \o (IF mainXLoc # mainX \/ mainYLoc # mainY
        THEN <<MarkerOf(mainXLoc, mainYLoc)>> ELSE <<>>)
    \o <<PlainOf(bbox.ur, mainXLoc, mainYLoc, wild)>>
    \o lineEntries(l, 1, mainXLoc, mainYLoc, wild)

\* GeomCache::insertLine(l, isArea): the entries appended to the
\* line-points file
insertLine(l, isArea, wild) ==
    boxEntries(l, getBoundingBox(l),
               MajorOf(getBoundingBox(l).ll.x, wild),
               MajorOf(getBoundingBox(l).ll.y, wild),
               MajorOf(getBoundingBox(l).ur.x, wild),
               MajorOf(getBoundingBox(l).ur.y, wild), wild)
    \o (IF isArea THEN <<MarkerOf(0, 0)>> ELSE <<>>)

\* insertLine for a line every coordinate of which has a major origin and a
\* marker that fit an int16_t, as those of the catalogue have: no conversion
\* is undefined
insertedLine(l, isArea) == insertLine(l, isArea, 0)


(***************************************************************************)
(* State                                                                   *)
(***************************************************************************)
VARIABLES
    \* the backend: its result, as indices into Catalogue in result order
    rows,
    \* the bytes of the transfer in progress that are not yet delivered
    wire,
    \* where the cache build stands
    pc,
    \* GeomCache::request: offset and lastNum of the paging loop, and the
    \* number of requestPart calls made
    offset, lastNum, pages,
    \* GeomCache: the parser (_state, _dangling, _prev, _lastQidToId)
    state, dangling, prev, lastQidToId,
    \* GeomCache: the scratch files; _pointsFSize, _linePointsFSize,
    \* _linesFSize and _qidToIdFSize are their lengths
    pointsF, linePointsF, linesF, qidToIdF,
    \* GeomCache: _curRow, _curUniqueGeom
    curRow, curUniqueGeom,
    \* GeomCache: the vectors _points, _linePoints, _lines, _qidToId
    points, linePoints, lines, qidToId,
    \* GeomCache: the binary-id pass (_curByte, _curId.bytes, _maxQid)
    curByte, curId, maxQid,
    \* whether parse() has read a byte that is not in its fragment, and
    \* whether parseIds() has touched _qidToId outside its bounds
    overread, idsOutOfBounds,
    \* getRelObjects: the argument, the result and the two cursors i and j
    ids, ret, relI, relJ,
    \* Requestor: _query, _ready, _objects, _pgrid, _lgrid, _lpgrid
    query, ready, objects, pgrid, lgrid, lpgrid,
    \* the threads inside Requestor::request: position, argument, the
    \* reader's ids, and the number of requests sent to the backend
    tpc, targ, tids, backendRequests,
    \* GeomCache: _exceptionPtr, and the result res of the last transfer of
    \* the WKT pass
    exceptionPtr, res,
    \* Requestor::request: each call's ePtr and the sections it has finished
    ePtr, secs,
    \* the cache file on disk, and the vectors of a second GeomCache
    disk, peer,
    \* the argument and the result of the call under way of a const member,
    \* and the variables on the stack of the calls under way
    call, result, locals

backendVars == <<rows, wire, pc, offset, lastNum, pages>>

parserVars == <<state, dangling, prev, lastQidToId>>

fileVars == <<pointsF, linePointsF, linesF, qidToIdF>>

vectorVars == <<points, linePoints, lines, qidToId>>

idVars == <<curByte, curId, maxQid>>

relVars == <<ids, ret, relI, relJ>>

requestorVars == <<query, ready, objects, pgrid, lgrid, lpgrid>>

threadVars == <<tpc, targ, tids, backendRequests>>

transferVars == <<exceptionPtr, res>>

sectionVars == <<ePtr, secs>>

diskVars == <<disk, peer>>

callVars == <<call, result, locals>>

vars ==
    <<backendVars, parserVars, fileVars, vectorVars, idVars, curRow,
      curUniqueGeom, overread, idsOutOfBounds, relVars, requestorVars,
      threadVars, transferVars, sectionVars, diskVars, callVars>>

(***************************************************************************)
(* GeomCache::parse                                                        *)
(***************************************************************************)
\* (uint64_t)-1, the qid _lastQidToId starts with: no qid of the model
QID_NONE == 0 - 1

\* conversion to ID_TYPE
ToId(n) == n % (2 ^ IdBits)

\* the parser and the files as one record
Cache ==
    [state |-> state, dangling |-> dangling, prev |-> prev,
     lastQidToId |-> lastQidToId, pointsF |-> pointsF,
     linePointsF |-> linePointsF, linesF |-> linesF, qidToIdF |-> qidToIdF,
     curRow |-> curRow, curUniqueGeom |-> curUniqueGeom,
     overread |-> overread]

\* IdMapping idm{qid, id}; _lastQidToId = idm; _qidToIdF.write(idm)
writeMapping(g, qid, id) ==
    [g EXCEPT !.lastQidToId = IdMapping(qid, id),
              !.qidToIdF = Append(@, IdMapping(qid, id))]

\* storeLine with a GID that is one too large
storeLinePastEnd(g, line, isArea, qid) ==
    writeMapping([g EXCEPT !.linesF = Append(@, Len(g.linePointsF)),
                           !.linePointsF = @ \o insertedLine(line, isArea)],
                 qid, ToId(I_OFFSET + Len(g.linesF) + 1))

\* lines 606-615: a non-empty line becomes the next entry of the lines file
storeLine(g, line, isArea, qid) ==
    writeMapping([g EXCEPT !.linesF = Append(@, Len(g.linePointsF)),
                           !.linePointsF = @ \o insertedLine(line, isArea)],
                 qid, ToId(I_OFFSET + Len(g.linesF) + 1 - 1))

\* std::string::operator[]: the terminating '\0' at a.size()
CharAt(a, p) == IF p < Len(a) THEN At(a, p) ELSE "\\0"

\* lines 623-643: the member line is stored, or stands for nothing
member(g, line, i, isArea) ==
    IF Len(line) = 0
    THEN IF i = 0 THEN writeMapping(g, 0, ID_MAX) ELSE g
    ELSE storeLine(g, line, isArea, IF i = 0 THEN 0 ELSE 1)

\* line 695: a doubled parenthesis is stepped over
stepOver(a, q, nested) ==
    IF nested /\ CharAt(a, q + 1) = "(" THEN q + 1 ELSE q

\* the member loops of lines 622-652, 658-688 and 694-725 with p the index
\* the search for the next '(' starts after and i the members seen; nested
\* says whether a doubled parenthesis is stepped over (line 695)
RECURSIVE multiMembers(_, _, _, _, _)
RECURSIVE membersAt(_, _, _, _, _)
multiMembers(g, p, i, isArea, nested) ==
    membersAt(g, Find(g.dangling, "(", p + 1), i, isArea, nested)

membersAt(g, q, i, isArea, nested) ==
    IF q = NPOS
    THEN IF i = 0 THEN writeMapping(g, 0, ID_MAX) ELSE g
    ELSE multiMembers(
             member(g, parseLineString(g.dangling,
                                       stepOver(g.dangling, q, nested) + 1),
                    i, isArea),
             stepOver(g.dangling, q, nested), i + 1, isArea, nested)

uniqueGeom(g) == [g EXCEPT !.curUniqueGeom = @ + 1]

\* lines 578-593
storePoint(g, point) ==
    IF pointValid(point)
    THEN writeMapping([g EXCEPT !.pointsF = Append(@, point)],
                      0, ToId(Len(g.pointsF) + 1 - 1))
    ELSE writeMapping(g, 0, ID_MAX)

pointCell(g) == storePoint(g, parsePoint(g.dangling, 7))

\* lines 599-616
storeLineString(g, line) ==
    IF Len(line) = 0
    THEN writeMapping(g, 0, ID_MAX)
    ELSE storeLine(g, line, FALSE, 0)

lineStringCell(g) == storeLineString(g, parseLineString(g.dangling, 12))

multiLineStringCell(g) == multiMembers(g, 17, 0, FALSE, FALSE)

polygonCell(g) == multiMembers(g, 9, 0, TRUE, FALSE)

multiPolygonCell(g) == multiMembers(g, 13, 0, TRUE, TRUE)

\* cell without the re-use of the previous geometry
cellParsedAnew(g) ==
    IF StartsWith(g.dangling, PfxPoint)
    THEN pointCell(uniqueGeom(g))
    ELSE IF StartsWith(g.dangling, PfxLine)
    THEN lineStringCell(uniqueGeom(g))
    ELSE IF StartsWith(g.dangling, PfxMultiLine)
    THEN multiLineStringCell(uniqueGeom(g))
    ELSE IF StartsWith(g.dangling, PfxPolygon)
    THEN polygonCell(uniqueGeom(g))
    ELSE IF StartsWith(g.dangling, PfxMultiPolygon)
    THEN multiPolygonCell(uniqueGeom(g))
    ELSE writeMapping(g, 0, ID_MAX)

\* cell without the sentinel mapping of a value that is no geometry
cellNoSentinel(g) ==
    IF g.prev = g.dangling /\ g.lastQidToId.qid = 0
    THEN writeMapping(g, 0, g.lastQidToId.id)
    ELSE IF StartsWith(g.dangling, PfxPoint)
    THEN pointCell(uniqueGeom(g))
    ELSE IF StartsWith(g.dangling, PfxLine)
    THEN lineStringCell(uniqueGeom(g))
    ELSE IF StartsWith(g.dangling, PfxMultiLine)
    THEN multiLineStringCell(uniqueGeom(g))
    ELSE IF StartsWith(g.dangling, PfxPolygon)
    THEN polygonCell(uniqueGeom(g))
    ELSE IF StartsWith(g.dangling, PfxMultiPolygon)
    THEN multiPolygonCell(uniqueGeom(g))
    ELSE g

\* lines 562-732: the cell in _dangling is turned into mappings
cell(g) ==
    IF g.prev = g.dangling /\ g.lastQidToId.qid = 0
    THEN writeMapping(g, 0, g.lastQidToId.id)
    ELSE IF StartsWith(g.dangling, PfxPoint)
    THEN pointCell(uniqueGeom(g))
    ELSE IF StartsWith(g.dangling, PfxLine)
    THEN lineStringCell(uniqueGeom(g))
    ELSE IF StartsWith(g.dangling, PfxMultiLine)
    THEN multiLineStringCell(uniqueGeom(g))
    ELSE IF StartsWith(g.dangling, PfxPolygon)
    THEN polygonCell(uniqueGeom(g))
    ELSE IF StartsWith(g.dangling, PfxMultiPolygon)
    THEN multiPolygonCell(uniqueGeom(g))
    ELSE writeMapping(g, 0, ID_MAX)

\* lines 734-754: the cell is done; a newline ends the row
endCell(g, ch) ==
    [g EXCEPT !.curRow = IF ch = NL THEN @ + 1 ELSE @,
              !.prev = g.dangling,
              !.dangling = <<>>]

\* lines 557-760: case IN_ROW on the character ch
inRow(g, ch) ==
    IF ch = TAB \/ ch = NL
    THEN endCell(cell(g), ch)
    ELSE [g EXCEPT !.dangling = Append(@, ch)]

\* beyond is the byte stored right after the fragment c
\* lines 548-763: one iteration of the loop with c at the 0-based index i of
\* the fragment; after the header's newline control falls into case IN_ROW
\* with c advanced and not compared with the end of the fragment
iteration(g, c, i, beyond) ==
    IF g.state = "IN_HEADER" /\ At(c, i) # NL
    THEN [g |-> g, i |-> i + 1]
    ELSE [g |-> inRow([g EXCEPT !.state = "IN_ROW",
                                !.overread = @ \/ (g.state = "IN_HEADER"
                                                      /\ i + 1 >= Len(c))],
                      IF g.state = "IN_ROW" THEN At(c, i)
                      ELSE IF i + 1 < Len(c) THEN At(c, i + 1) ELSE beyond),
          i |-> IF g.state = "IN_ROW" THEN i + 1 ELSE i + 2]

\* line 547: at most n iterations of while (c < start + size)
RECURSIVE iterations(_, _, _, _)
iterations(gi, c, n, beyond) ==
    IF n = 0 \/ gi.i >= Len(c) THEN gi
    ELSE IF n = 1 THEN iteration(gi.g, c, gi.i, beyond)
    ELSE iterations(iterations(gi, c, n \div 2, beyond),
                    c, n - n \div 2, beyond)

parse(g, c, beyond) == iterations([g |-> g, i |-> 0], c, Len(c), beyond).g


(***************************************************************************)
(* GeomCache::parseIds                                                     *)
(***************************************************************************)
\* _curId.val of the eight little-endian bytes
RECURSIVE leVal(_, _)
leVal(bytes, k) ==
    IF k > Len(bytes) THEN 0 ELSE bytes[k] + 256 * leVal(bytes, k + 1)

\* the state of the binary-id pass as one record
IdPass ==
    [qidToId |-> qidToId, curRow |-> curRow, curByte |-> curByte,
     curId |-> curId, maxQid |-> maxQid, outOfBounds |-> idsOutOfBounds]

\* _qidToId[k].qid; junk is what a read outside the vector yields
qidAt(h, k, junk) ==
    IF k < Len(h.qidToId) THEN At(h.qidToId, k).qid ELSE junk

\* _qidToId.size() - 1 as a size_t
SizeMinusOne(h) ==
    IF Len(h.qidToId) = 0 THEN 2147483647 ELSE Len(h.qidToId) - 1

\* lines 794-796: the continuation mappings after _curRow take the qid
RECURSIVE continuations(_, _, _)
continuations(h, val, junk) ==
    IF h.curRow < SizeMinusOne(h) /\ qidAt(h, h.curRow + 1, junk) = 1
    THEN IF h.curRow + 1 < Len(h.qidToId)
         THEN continuations(
                  [h EXCEPT !.curRow = @ + 1,
                            !.qidToId[h.curRow + 2].qid = val], val, junk)
         ELSE [h EXCEPT !.curRow = @ + 1, !.outOfBounds = TRUE]
    ELSE [h EXCEPT !.outOfBounds =
                       @ \/ (h.curRow < SizeMinusOne(h)
                                /\ h.curRow + 1 >= Len(h.qidToId))]

\* lines 779-787: the qid is written over the placeholder 0
primary(h, val, junk) ==
    IF h.curRow < Len(h.qidToId) /\ qidAt(h, h.curRow, junk) = 0
    THEN [h EXCEPT !.qidToId[h.curRow + 1].qid = val,
                   !.maxQid = IF val > @ THEN val ELSE @]
    ELSE [h EXCEPT !.outOfBounds = @ \/ h.curRow >= Len(h.qidToId)]

\* line 798
nextRow(h) == [h EXCEPT !.curRow = @ + 1]

\* lines 773-798: one id is complete
idComplete(h, junk) ==
    nextRow(continuations(primary(h, leVal(h.curId, 1), junk),
                          leVal(h.curId, 1), junk))

\* lines 770-773
byte(h, b) ==
    IF h.curByte = 7
    THEN [h EXCEPT !.curId[h.curByte + 1] = b, !.curByte = 0]
    ELSE [h EXCEPT !.curId[h.curByte + 1] = b, !.curByte = @ + 1]

\* lines 769-800 from the 0-based index i of the fragment c
RECURSIVE parseIdsFrom(_, _, _, _)
parseIdsFrom(h, c, i, junk) ==
    IF i >= Len(c) THEN h
    ELSE parseIdsFrom(IF h.curByte = 7
                      THEN idComplete(byte(h, At(c, i)), junk)
                      ELSE byte(h, At(c, i)),
                      c, i + 1, junk)

\* a parseIds that starts every fragment at the first byte of an id
parseIdsAligned(h, c, junk) ==
    parseIdsFrom([h EXCEPT !.curByte = 0], c, 0, junk)

parseIds(h, c, junk) == parseIdsFrom(h, c, 0, junk)

(***************************************************************************)
(* The backend                                                             *)
(***************************************************************************)
\* the results the backend can hold: ORDER BY ?g keeps equal literals
\* adjacent
Results ==
    UNION {{r \in [1..n -> 1..Len(Catalogue)] :
               \A i \in 1..n, j \in 1..n : i < j => r[i] <= r[j]}
           : n \in 0..MaxRows}

\* the header line of a TSV response
Header == <<"?", "g">>

\* the LIMIT of one page (line 873)
PageLimit == 1000000

RECURSIVE RowLines(_, _, _)
RowLines(r, from, to) ==
    IF from > to THEN <<>>
    ELSE Catalogue[r[from]] \o <<NL>> \o RowLines(r, from + 1, to)

\* the TSV response to QUERY LIMIT PageLimit OFFSET off
PageStream(r, off) ==
    Header \o <<NL>> \o RowLines(r, off + 1, Min(Len(r), off + PageLimit))

\* the backend's qid of the k-th literal of the catalogue: one qid per
\* literal, in an order of its own
QidRank == <<2, 1, 4, 3, 6, 5, 7>>

QidOf(k) == QidBase + QidRank[k]

RECURSIVE leBytes(_, _)
leBytes(v, n) == IF n = 0 THEN <<>> ELSE <<v % 256>> \o leBytes(v \div 256, n - 1)

\* the octet-stream response: eight little-endian bytes per row
RECURSIVE IdStream(_, _)
IdStream(r, from) ==
    IF from > Len(r) THEN <<>>
    ELSE leBytes(QidOf(r[from]), 8) \o IdStream(r, from + 1)

\* the lengths the next fragment of w can have
FragLens(w) == (1..Min(MaxFrag, Len(w))) \cup {Len(w)}

\* what the byte after a fragment can be
Beyond == {NL, TAB, CR}

\* what the qid read outside _qidToId can be: 0, 1 or something else
Junk == {0, 1, 2}

\* whether parse() in state st reads beyond the fragment c
EndsAfterHeader(st, c) == st = "IN_HEADER" /\ Find(c, NL, 0) = Len(c) - 1

(***************************************************************************)
(* std::sort                                                               *)
(***************************************************************************)
\* the ways to put e into the sorted t
Inserted(t, e) ==
    {SubSeq(t, 1, k) \o <<e>> \o SubSeq(t, k + 1, Len(t)) :
        k \in {k \in 0..Len(t) :
                  /\ k = 0 \/ ~IdMappingLess(e, t[k])
                  /\ k = Len(t) \/ ~IdMappingLess(t[k + 1], e)}}

\* s left as it is
Unsorted(s) == {s}

\* the orders std::sort can leave s in: elements of which neither is less
\* than the other in any order
RECURSIVE Sorts(_)
Sorts(s) ==
    IF s = <<>> THEN {<<>>}
    ELSE UNION {Inserted(t, s[Len(s)]) : t \in Sorts(SubSeq(s, 1, Len(s) - 1))}


(***************************************************************************)
(* The cache build                                                         *)
(***************************************************************************)
Threads == {"t1", "t2"}

\* libcurl's result codes
CURLE_OK == 0

CURLE_WRITE_ERROR == 23

CURLE_RECV_ERROR == 56

\* the variables of getRelObjects' check and of the Requestor, at rest
RelIdle == ids = <<>> /\ ret = <<>> /\ relI = 0 /\ relJ = 0

RequestorIdle ==
    /\ query = "" /\ ready = FALSE /\ objects = <<>>
    /\ pgrid = {} /\ lgrid = {} /\ lpgrid = {}
    /\ tpc = [t \in Threads |-> "idle"]
    /\ targ = [t \in Threads |-> ""]
    /\ tids = [t \in Threads |-> <<>>]
    /\ backendRequests = 0
    /\ ePtr = [t \in Threads |-> FALSE]
    /\ secs = [t \in Threads |-> {}]

\* no transfer under way
BackendIdle ==
    /\ wire = <<>> /\ offset = 0 /\ lastNum = 0 /\ pages = 0
    /\ exceptionPtr = FALSE /\ res = CURLE_OK

\* the vectors of a GeomCache that holds nothing
NoVectors == [points |-> <<>>, linePoints |-> <<>>, lines |-> <<>>,
              qidToId |-> <<>>]

\* no cache file, no second cache, and no call of a const member under way
Elsewhere ==
    /\ disk = <<>> /\ peer = NoVectors
    /\ call = <<>> /\ result = <<>> /\ locals = <<>>

\* the parser, the files and the binary-id pass of a new GeomCache
ParserNew ==
    /\ state = "IN_HEADER" /\ dangling = <<>> /\ prev = <<>>
    /\ lastQidToId = IdMapping(QID_NONE, ID_MAX)
    /\ pointsF = <<>> /\ linePointsF = <<>> /\ linesF = <<>>
    /\ qidToIdF = <<>>
    /\ curRow = 0 /\ curUniqueGeom = 0
    /\ curByte = 0 /\ curId = [k \in 1..8 |-> 0] /\ maxQid = 0
    /\ overread = FALSE /\ idsOutOfBounds = FALSE

\* a GeomCache after construction, in front of a backend holding rows
Init ==
    /\ rows \in Results
    /\ pc = "new" /\ BackendIdle /\ ParserNew
    /\ points = <<>> /\ linePoints = <<>> /\ lines = <<>> /\ qidToId = <<>>
    /\ RelIdle /\ RequestorIdle /\ Elsewhere

\* GeomCache::request, lines 911-964: the vectors are cleared and the
\* scratch files created
request ==
    /\ pc = "new"
    /\ pc' = "loop"
    /\ state' = "IN_HEADER"
    /\ points' = <<>> /\ lines' = <<>> /\ linePoints' = <<>>
    /\ qidToId' = <<>>
    /\ lastQidToId' = IdMapping(QID_NONE, ID_MAX)
    /\ pointsF' = <<>> /\ linePointsF' = <<>> /\ linesF' = <<>>
    /\ qidToIdF' = <<>>
    /\ curRow' = 0 /\ curUniqueGeom' = 0
    /\ lastNum' = 0 - 1
    /\ UNCHANGED <<rows, wire, offset, pages, dangling, prev, idVars,
                   overread, idsOutOfBounds, relVars, requestorVars,
                   threadVars, transferVars, sectionVars, diskVars, callVars>>

\* lines 966-968 and GeomCache::requestPart, lines 865-889: the next page
\* is asked for
requestPart ==
    /\ pc = "loop" /\ lastNum # 0 /\ pages < MaxPages
    /\ offset' = curRow
    /\ state' = "IN_HEADER"
    /\ dangling' = <<>>
    /\ wire' = PageStream(rows, curRow)
    /\ pages' = pages + 1
    /\ res' = CURLE_OK
    /\ pc' = "part"
    /\ UNCHANGED <<rows, lastNum, prev, lastQidToId, fileVars, vectorVars,
                   idVars, curRow, curUniqueGeom, overread, idsOutOfBounds,
                   relVars, requestorVars, threadVars, exceptionPtr,
                   sectionVars, diskVars, callVars>>

\* the cache after parse() has returned g
parsed(g) ==
    /\ state' = g.state
    /\ dangling' = g.dangling
    /\ prev' = g.prev
    /\ lastQidToId' = g.lastQidToId
    /\ pointsF' = g.pointsF
    /\ linePointsF' = g.linePointsF
    /\ linesF' = g.linesF
    /\ qidToIdF' = g.qidToIdF
    /\ curRow' = g.curRow
    /\ curUniqueGeom' = g.curUniqueGeom
    /\ overread' = g.overread

\* the cache after parseIds() has returned h
parsedIds(h) ==
    /\ qidToId' = h.qidToId
    /\ curRow' = h.curRow
    /\ curByte' = h.curByte
    /\ curId' = h.curId
    /\ maxQid' = h.maxQid
    /\ idsOutOfBounds' = h.outOfBounds

\* GeomCache::writeCb: the transfer hands the next fragment to parse()
writeCb ==
    /\ pc = "part" /\ wire # <<>>
    /\ \E n \in FragLens(wire) :
          \E b \in IF EndsAfterHeader(state, SubSeq(wire, 1, n))
                   THEN Beyond ELSE {CR} :
             /\ wire' = SubSeq(wire, n + 1, Len(wire))
             /\ parsed(parse(Cache, SubSeq(wire, 1, n), b))
    /\ UNCHANGED <<rows, pc, offset, lastNum, pages, vectorVars, idVars,
                   idsOutOfBounds, relVars, requestorVars, threadVars,
                   transferVars, sectionVars, diskVars, callVars>>

\* lines 889-908 and 969: the transfer has ended; the exception a callback
\* has caught is rethrown, a result other than CURLE_OK is logged, and
\* requestPart returns
partDone ==
    /\ pc = "part" /\ wire = <<>>
    /\ IF exceptionPtr
       THEN pc' = "failed" /\ UNCHANGED lastNum
       ELSE pc' = "loop" /\ lastNum' = curRow - offset
    /\ UNCHANGED <<rows, wire, offset, pages, parserVars, fileVars,
                   vectorVars, idVars, curRow, curUniqueGeom, overread,
                   idsOutOfBounds, relVars, requestorVars, threadVars,
                   transferVars, sectionVars, diskVars, callVars>>

\* lines 972-1001: the files are read into the vectors
buildVectors ==
    /\ pc = "loop" /\ lastNum = 0
    /\ points' = pointsF
    /\ linePoints' = linePointsF
    /\ lines' = linesF
    /\ qidToId' = qidToIdF
    /\ pc' = "built"
    /\ UNCHANGED <<rows, wire, offset, lastNum, pages, parserVars, fileVars,
                   idVars, curRow, curUniqueGeom, overread, idsOutOfBounds,
                   relVars, requestorVars, threadVars, transferVars,
                   sectionVars, diskVars, callVars>>

\* GeomCache::requestIds, lines 1005-1030: the binary ids are asked for
requestIds ==
    /\ pc = "built"
    /\ curByte' = 0 /\ curRow' = 0 /\ curUniqueGeom' = 0 /\ maxQid' = 0
    /\ exceptionPtr' = FALSE
    /\ wire' = IdStream(rows, 1)
    /\ pc' = "ids"
    /\ UNCHANGED <<rows, offset, lastNum, pages, parserVars, fileVars,
                   vectorVars, curId, overread, idsOutOfBounds, relVars,
                   requestorVars, threadVars, res, sectionVars, diskVars,
                   callVars>>

\* GeomCache::writeCbIds: the transfer hands the next fragment to parseIds()
writeCbIds ==
    /\ pc = "ids" /\ wire # <<>>
    /\ \E n \in FragLens(wire), junk \in Junk :
          /\ wire' = SubSeq(wire, n + 1, Len(wire))
          /\ parsedIds(parseIds(IdPass, SubSeq(wire, 1, n), junk))
    /\ UNCHANGED <<rows, pc, offset, lastNum, pages, parserVars, fileVars,
                   points, linePoints, lines, curUniqueGeom, overread,
                   relVars, requestorVars, threadVars, transferVars,
                   sectionVars, diskVars, callVars>>

\* lines 1030-1046: the transfer has ended; the exception a callback has
\* caught is rethrown, else _qidToId is sorted
idsDone ==
    /\ pc = "ids" /\ wire = <<>>
    /\ IF exceptionPtr
       THEN pc' = "failed" /\ UNCHANGED qidToId
       ELSE pc' = "ready" /\ qidToId' \in Sorts(qidToId)
    /\ UNCHANGED <<rows, wire, offset, lastNum, pages, parserVars, fileVars,
                   points, linePoints, lines, idVars, curRow, curUniqueGeom,
                   overread, idsOutOfBounds, relVars, requestorVars,
                   threadVars, transferVars, sectionVars, diskVars, callVars>>

Next ==
    \/ request
    \/ requestPart
    \/ writeCb
    \/ partDone
    \/ buildVectors
    \/ requestIds
    \/ writeCbIds
    \/ idsDone

Spec == Init /\ [][Next]_vars

(***************************************************************************)
(* The cache build with failing transfers and throwing parsers             *)
(***************************************************************************)
\* the longest result of the backend in the builds that meet failures
MaxFaultRows == 1

\* the number of iterations of its loop after which parse() or parseIds()
\* can throw
ThrowsAfter == 0..(MaxFrag - 1)

\* the lengths of the fragment a callback can be given
CallbackLens(w) == FragLens(w) \cup ({CURLE_WRITE_ERROR} \cap 1..Len(w))

\* what libcurl does with the value a write callback returns for a fragment
\* of n bytes: anything but n ends the transfer with CURLE_WRITE_ERROR
written(n, returned) ==
    IF returned = n
    THEN wire' = SubSeq(wire, n + 1, Len(wire)) /\ UNCHANGED res
    ELSE wire' = <<>> /\ res' = IF pc = "part" THEN CURLE_WRITE_ERROR ELSE res

\* curl_easy_perform of requestPart (line 889) ends with a transport error,
\* before the first byte of the response or after its last: the bytes not
\* yet delivered never arrive
transferFails ==
    /\ pc = "part" /\ res = CURLE_OK /\ ~exceptionPtr
    /\ wire \in {<<>>, PageStream(rows, offset)}
    /\ wire' = <<>>
    /\ res' = CURLE_RECV_ERROR
    /\ UNCHANGED <<rows, pc, offset, lastNum, pages, parserVars, fileVars,
                   vectorVars, idVars, curRow, curUniqueGeom, overread,
                   idsOutOfBounds, relVars, requestorVars, threadVars,
                   exceptionPtr, sectionVars, diskVars, callVars>>

\* GeomCache::writeCb, lines 509-511: parse() throws after k iterations;
\* the exception is kept and CURLE_WRITE_ERROR returned
writeCbCaught ==
    /\ pc = "part" /\ wire # <<>> /\ ~exceptionPtr
    /\ \E n \in CallbackLens(wire), k \in ThrowsAfter :
          /\ iterations([g |-> Cache, i |-> 0], SubSeq(wire, 1, n), k,
                        CR).i < n
          /\ parsed(iterations([g |-> Cache, i |-> 0], SubSeq(wire, 1, n),
                               k, CR).g)
          /\ written(n, CURLE_WRITE_ERROR)
    /\ exceptionPtr' = TRUE
    /\ UNCHANGED <<rows, pc, offset, lastNum, pages, vectorVars, idVars,
                   idsOutOfBounds, relVars, requestorVars, threadVars,
                   sectionVars, diskVars, callVars>>

\* GeomCache::writeCbIds, lines 523-525: parseIds() throws after k bytes
writeCbIdsCaught ==
    /\ pc = "ids" /\ wire # <<>> /\ ~exceptionPtr
    /\ \E n \in CallbackLens(wire), k \in ThrowsAfter, junk \in Junk :
          /\ k < n
          /\ parsedIds(parseIds(IdPass, SubSeq(wire, 1, k), junk))
          /\ written(n, CURLE_WRITE_ERROR)
    /\ exceptionPtr' = TRUE
    /\ UNCHANGED <<rows, pc, offset, lastNum, pages, parserVars, fileVars,
                   points, linePoints, lines, curUniqueGeom, overread,
                   relVars, requestorVars, threadVars, sectionVars, diskVars,
                   callVars>>

NextFault ==
    \/ Next
    \/ transferFails
    \/ writeCbCaught
    \/ writeCbIdsCaught

\* a GeomCache after construction, in front of a backend holding at most
\* MaxFaultRows rows
InitFault == Init /\ Len(rows) <= MaxFaultRows

SpecFault == InitFault /\ [][NextFault]_vars


(***************************************************************************)
(* Properties of the cache build                                           *)
(***************************************************************************)
\* the parser and the files right after lines 911-964
CacheAfterRequest ==
    [state |-> "IN_HEADER", dangling |-> <<>>, prev |-> <<>>,
     lastQidToId |-> IdMapping(QID_NONE, ID_MAX), pointsF |-> <<>>,
     linePointsF |-> <<>>, linesF |-> <<>>, qidToIdF |-> <<>>,
     curRow |-> 0, curUniqueGeom |-> 0, overread |-> FALSE]

\* the first page of the result r taken in as one fragment
AsOneFragment(r) == parse(CacheAfterRequest, PageStream(r, 0), CR)

\* the first page has been taken in
FirstPageDone == pc = "part" /\ wire = <<>> /\ pages = 1

\* the GIDs of the mappings s
Gids(s) == [k \in 1..Len(s) |-> s[k].id]

\* the primary mappings among the first k of s
PrimariesUpTo(s, k) == Cardinality({m \in 1..k : s[m].qid = 0})

\* C1: parse() can be restarted at any byte: however the first page is cut
\* into fragments, the mappings, the points, the lines, the line points and
\* the row counter are those of the page taken in as one fragment, and no
\* byte outside a fragment is read
C1_Restartable ==
    FirstPageDone =>
        /\ ~overread
        /\ qidToIdF = AsOneFragment(rows).qidToIdF
        /\ pointsF = AsOneFragment(rows).pointsF
        /\ linesF = AsOneFragment(rows).linesF
        /\ linePointsF = AsOneFragment(rows).linePointsF
        /\ curRow = AsOneFragment(rows).curRow

\* the binary-id pass has taken in the last id, and the WKT pass had taken
\* in as many rows as the backend streams ids
IdPassDone == pc = "ids" /\ wire = <<>> /\ offset = Len(rows)

\* C3: after the binary-id pass the k-th primary mapping holds the k-th
\* streamed qid, a continuation mapping holds the qid of the mapping before
\* it, and no mapping is left with a placeholder
C3_QidsAssigned ==
    IdPassDone =>
        \A k \in 1..Len(qidToId) :
            /\ qidToId[k].qid # 0 /\ qidToId[k].qid # 1
            /\ qidToIdF[k].qid = 0 =>
                  /\ PrimariesUpTo(qidToIdF, k) <= Len(rows)
                  /\ qidToId[k].qid = QidOf(rows[PrimariesUpTo(qidToIdF, k)])
            /\ qidToIdF[k].qid = 1 =>
                  k > 1 /\ qidToId[k].qid = qidToId[k - 1].qid

DuplicateEnds ==
    /\ pc = "part" /\ state = "IN_ROW" /\ wire # <<>> /\ Head(wire) = NL
    /\ dangling = prev
    /\ wire' = Tail(wire)

MemberStarts(a) ==
    {p \in 1..(Len(a) - 1) : At(a, p - 1) = "(" /\ At(a, p) # "("}

\* the starts in a below p, and the line entries of the members of a in
\* source order
RECURSIVE MemberEntries(_, _, _)
MemberEntries(a, p, isArea) ==
    IF p >= Len(a) THEN <<>>
    ELSE IF p \in MemberStarts(a)
    THEN insertedLine(parseLineString(a, p), isArea)
             \o MemberEntries(a, p + 1, isArea)
    ELSE MemberEntries(a, p + 1, isArea)

\* C7: a POLYGON, MULTILINESTRING or MULTIPOLYGON row with k rings or
\* members is stored as k lines in source order, the first ring or member
\* first, under k mappings, the first primary and the others continuations
C7_AllMembers ==
    (/\ FirstPageDone /\ ~overread
     /\ Len(rows) = 1 /\ rows[1] \in {3, 4, 5})
        => /\ Len(linesF) = Cardinality(MemberStarts(Catalogue[rows[1]]))
           /\ linePointsF = MemberEntries(Catalogue[rows[1]], 0,
                                          rows[1] \in {3, 5})
           /\ qidToIdF = [k \in 1..Len(linesF) |->
                             IdMapping(IF k = 1 THEN 0 ELSE 1,
                                       I_OFFSET + k - 1)]

\* GeomCache::request() has returned
Built == pc \in {"built", "ids", "ready"}

\* C8: after request() every GID of qidToId is the sentinel, an index into
\* points, or I_OFFSET plus an index into lines
C8_GidValid ==
    Built =>
        \A k \in 1..Len(qidToId) :
            \/ qidToId[k].id = ID_MAX
            \/ qidToId[k].id < I_OFFSET /\ qidToId[k].id < Len(points)
            \/ /\ qidToId[k].id >= I_OFFSET
               /\ qidToId[k].id - I_OFFSET < Len(lines)

\* a line is mapped twice, the second time by the re-use of its GID
C8_Witness ==
    /\ pc = "built"
    /\ \E k \in 1..(Len(qidToId) - 1) :
          /\ qidToId[k].id = qidToId[k + 1].id
          /\ qidToId[k].id >= I_OFFSET /\ qidToId[k].id # ID_MAX

\* C9 as the specification states it: after requestIds() the qids of
\* qidToId grow strictly (a qidToId that holds nothing but streamed qids is
\* looked at)
C9_StrictlySorted ==
    (pc = "ready" /\ \A k \in 1..Len(qidToId) : qidToId[k].qid > QidBase)
        => \A k \in 1..(Len(qidToId) - 1) :
               qidToId[k].qid < qidToId[k + 1].qid

\* C9: after requestIds() the qids of qidToId do not decrease
C9_Sorted ==
    pc = "ready" =>
        \A k \in 1..(Len(qidToId) - 1) : qidToId[k].qid <= qidToId[k + 1].qid

\* two mappings of one qid lie next to each other, after two of two qids
\* that the backend streamed in the other order
C9_Witness ==
    /\ pc = "ready"
    /\ \E k \in 1..(Len(qidToId) - 1) :
          qidToId[k].qid = qidToId[k + 1].qid /\ qidToId[k].qid > QidBase
    /\ \E k \in 1..(Len(rows) - 1) : QidOf(rows[k]) > QidOf(rows[k + 1])

\* C10 as the specification states it: one mapping per row, so that
\* qidToId is as long as the rows taken in and as the ids streamed
C10_OnePerRow ==
    /\ (pc = "part" /\ wire = <<>> /\ ~overread) => Len(qidToIdF) = curRow
    /\ IdPassDone => Len(qidToId) = Len(rows)

\* the ids the binary-id pass has taken in
IdsConsumed == (8 * Len(rows) - Len(wire)) \div 8

\* C10: every row taken in writes at least one mapping, a primary one
\* first, and every id taken in by the binary-id pass takes the pass over
\* one primary mapping and the continuations after it
C10_PrimaryPerRow ==
    /\ pc \in {"part", "loop", "built"} =>
          /\ curRow <= PrimariesUpTo(qidToIdF, Len(qidToIdF))
          /\ Len(qidToIdF) > 0 => qidToIdF[1].qid = 0
          /\ \A k \in 1..Len(qidToIdF) : qidToIdF[k].qid \in {0, 1}
    /\ (pc = "ids" /\ curByte = 0) =>
          /\ curRow <= Len(qidToIdF)
          /\ PrimariesUpTo(qidToIdF, curRow) = IdsConsumed
          /\ curRow < Len(qidToIdF) => qidToIdF[curRow + 1].qid = 0

\* a row of two members has been taken in and its ids streamed
C10_Witness ==
    /\ pc = "ids" /\ wire = <<>> /\ Len(rows) >= 1
    /\ \E k \in 1..Len(qidToIdF) : qidToIdF[k].qid = 1
    /\ Len(qidToId) > Len(rows)

\* the binary-id pass right after lines 1005-1030
IdPassStart ==
    [qidToId |-> qidToIdF, curRow |-> 0, curByte |-> 0,
     curId |-> [k \in 1..8 |-> 0], maxQid |-> 0, outOfBounds |-> FALSE]

\* the bytes of the id stream handed to parseIds() so far
IdsTakenIn ==
    SubSeq(IdStream(rows, 1), 1, Len(IdStream(rows, 1)) - Len(wire))

\* the bytes taken in so far, taken in as one fragment
AsOneIdFragment == parseIds(IdPassStart, IdsTakenIn, 0)

\* C11: parseIds() does not depend on the fragmentation: however the id
\* stream is cut, inside an id or between two, the qids written, the slots
\* of _qidToId they are written to, the row counter and the largest qid are
\* those of the same bytes taken in as one fragment
C11_IdsRestartable ==
    pc = "ids" =>
        /\ qidToId = AsOneIdFragment.qidToId
        /\ curRow = AsOneIdFragment.curRow
        /\ curByte = AsOneIdFragment.curByte
        /\ maxQid = AsOneIdFragment.maxQid
        /\ idsOutOfBounds = AsOneIdFragment.outOfBounds

\* a fragment has ended inside the second id, after the first id, itself
\* cut into fragments, was written to its slot
C11_Witness ==
    /\ pc = "ids" /\ curByte # 0 /\ curRow >= 1 /\ Len(rows) = 2
    /\ rows[1] # rows[2]
    /\ \E k \in 1..Len(qidToId) : qidToId[k].qid = QidOf(rows[1])

\* C12: a transport error in the WKT pass aborts the build: request() does
\* not get as far as filling the vectors, and so does not complete, when a
\* transfer of the pass has ended with a result other than CURLE_OK
C12_TransportErrorAborts ==
    pc \in {"built", "ids", "ready"} => res = CURLE_OK

\* C13: whenever a write callback catches an exception of parse() or
\* parseIds(), whatever the size of its fragment, the value it returns
\* cancels the transfer, so that no byte after the fragment is delivered, and
\* once the transfer has returned requestPart() or requestIds() rethrows
C13_ThrowCancels ==
    [][/\ (~exceptionPtr /\ exceptionPtr') => wire' = <<>>
       /\ (exceptionPtr /\ wire = <<>> /\ pc' # pc) => pc' = "failed"]_vars

\* C23: every page is asked for at the number of the backend's rows taken
\* in so far, the pass stops after the first page that holds no row, and
\* when it has stopped every row of the backend has been taken in once
C23_PagedIngest ==
    /\ pc = "part" => offset \in {0, Len(rows)} /\ offset <= curRow
    /\ pc = "loop" => pages <= (IF Len(rows) = 0 THEN 1 ELSE 2)
    /\ pc \in {"built", "ids", "ready"} =>
          /\ curRow = Len(rows)
          /\ pages = (IF Len(rows) = 0 THEN 1 ELSE 2)
          /\ PrimariesUpTo(qidToIdF, Len(qidToIdF)) = Len(rows)

\* C30: whenever a fragment has been taken in, the mappings with the
\* placeholder 0 are as many as the rows counted, the first mapping has the
\* placeholder 0, and every mapping has the placeholder 0 or 1
C30_PrimaryEachRow ==
    (pc \in {"loop", "built"} \/ (pc = "part" /\ wire = <<>>)) =>
        /\ PrimariesUpTo(qidToIdF, Len(qidToIdF)) = curRow
        /\ Len(qidToIdF) > 0 => qidToIdF[1].qid = 0
        /\ \A k \in 1..Len(qidToIdF) : qidToIdF[k].qid \in {0, 1}

(***************************************************************************)
(* GeomCache::getRelObjects                                                *)
(***************************************************************************)
\* std::lower_bound(q.begin() + lo, q.begin() + hi, val) - q.begin()
RECURSIVE lower_bound(_, _, _, _)
lower_bound(q, lo, hi, val) ==
    IF lo >= hi THEN lo
    ELSE IF IdMappingLess(At(q, lo + (hi - lo) \div 2), val)
    THEN lower_bound(q, lo + (hi - lo) \div 2 + 1, hi, val)
    ELSE lower_bound(q, lo, lo + (hi - lo) \div 2, val)

\* a galloping loop that leaves j where it is
gallopNowhere(q, j, gallop, val) == j

\* lines 1138-1156: the do-while loop from j with the stride gallop; the
\* new j
RECURSIVE gallopFrom(_, _, _, _)
gallopFrom(q, j, gallop, val) ==
    IF j + gallop >= Len(q)
    THEN lower_bound(q, j + gallop \div 2, Len(q), val)
    ELSE IF At(q, j + gallop).qid >= val.qid
    THEN lower_bound(q, j + gallop \div 2, j + gallop, val)
    ELSE gallopFrom(q, j, gallop * 2, val)

\* lines 1132-1157: one iteration of the while loop
relIteration(a, q, r) ==
    IF At(a, r.i).qid = At(q, r.j).qid
    THEN [r EXCEPT !.ret = Append(@, [first |-> At(q, r.j).id,
                                      second |-> At(a, r.i).id]),
                   !.j = @ + 1]
    ELSE IF At(a, r.i).qid < At(q, r.j).qid
    THEN [r EXCEPT !.i = @ + 1]
    ELSE [r EXCEPT !.j = gallopFrom(q, r.j, 1, At(a, r.i))]

\* line 1131: the loop's condition
relInLoop(a, q, r) == r.i < Len(a) /\ r.j < Len(q)

\* lines 1128-1160: the loop from r on, and what is returned
RECURSIVE relLoop(_, _, _)
relLoop(a, q, r) ==
    IF relInLoop(a, q, r) THEN relLoop(a, q, relIteration(a, q, r)) ELSE r.ret

getRelObjects(a, q) == relLoop(a, q, [i |-> 0, j |-> 0, ret |-> <<>>])

\* the cursors and the result as one record
Rel == [i |-> relI, j |-> relJ, ret |-> ret]

\* the sequences of length n over 1..MaxRel that do not decrease
SortedQids(n) ==
    {f \in [1..n -> 1..MaxRel] : \A k \in 1..(n - 1) : f[k] <= f[k + 1]}

\* a sorted _qidToId: the k-th mapping holds the GID k - 1, or the sentinel
\* when k is sp
SortedMappings ==
    UNION {{[k \in 1..n |-> IdMapping(f[k], IF k = sp THEN ID_MAX ELSE k - 1)]
               : f \in SortedQids(n), sp \in 0..n}
           : n \in 0..MaxRel}

\* a sorted reader.ids: the k-th entry is the result row k - 1
SortedIds ==
    UNION {{[k \in 1..n |-> IdMapping(f[k], k - 1)] : f \in SortedQids(n)}
           : n \in 0..MaxRel}

\* a ready cache and a call getRelObjects(ids) at its first line
InitRel ==
    /\ rows = <<>> /\ pc = "rel" /\ BackendIdle /\ ParserNew
    /\ points = <<>> /\ linePoints = <<>> /\ lines = <<>>
    /\ qidToId \in SortedMappings
    /\ ids \in SortedIds
    /\ ret = <<>> /\ relI = 0 /\ relJ = 0
    /\ RequestorIdle /\ Elsewhere

\* lines 1131-1158: the loop is entered once more
relStep ==
    /\ pc = "rel" /\ relInLoop(ids, qidToId, Rel)
    /\ ret' = relIteration(ids, qidToId, Rel).ret
    /\ relI' = relIteration(ids, qidToId, Rel).i
    /\ relJ' = relIteration(ids, qidToId, Rel).j
    /\ UNCHANGED <<backendVars, parserVars, fileVars, vectorVars, idVars,
                   curRow, curUniqueGeom, overread, idsOutOfBounds, ids,
                   requestorVars, threadVars, transferVars, sectionVars,
                   diskVars, callVars>>

\* line 1160: the loop is left and ret returned
relReturn ==
    /\ pc = "rel" /\ ~relInLoop(ids, qidToId, Rel)
    /\ pc' = "relDone"
    /\ UNCHANGED <<rows, wire, offset, lastNum, pages, parserVars, fileVars,
                   vectorVars, idVars, curRow, curUniqueGeom, overread,
                   idsOutOfBounds, relVars, requestorVars, threadVars,
                   transferVars, sectionVars, diskVars, callVars>>

NextRel ==
    \/ relStep
    \/ relReturn

SpecRel == InitRel /\ [][NextRel]_vars

\* the pairs (entry of ids, mapping of qidToId) with one qid
Joined ==
    {m \in (1..Len(ids)) \X (1..Len(qidToId)) :
        ids[m[1]].qid = qidToId[m[2]].qid}

\* C2: what getRelObjects returns is the join of ids and qidToId on the qid:
\* one pair (GID, row) for every entry of ids and every mapping with that
\* entry's qid, the sentinel GID included, in the order of the qids, and
\* nothing else
C2_ReferenceJoin ==
    pc = "relDone" =>
        /\ Len(ret) = Cardinality(Joined)
        /\ \A m \in Joined :
              Cardinality({k \in 1..Len(ret) :
                              /\ ret[k].first = qidToId[m[2]].id
                              /\ ret[k].second = ids[m[1]].id})
                  = Cardinality({n \in Joined :
                                    /\ qidToId[n[2]].id = qidToId[m[2]].id
                                    /\ ids[n[1]].id = ids[m[1]].id})
        /\ \A k \in 1..Len(ret), l \in 1..Len(ret) :
              k < l => ids[ret[k].second + 1].qid <= ids[ret[l].second + 1].qid

\* the loop of getRelObjects goes on for as long as it can
SpecRelLive == InitRel /\ [][NextRel]_vars /\ WF_vars(NextRel)

\* lines 1140 and 1147: the indices at which the galloping loop from j
\* reads _qidToId
RECURSIVE gallopProbes(_, _, _, _)
gallopProbes(q, j, gallop, val) ==
    IF j + gallop >= Len(q) THEN {}
    ELSE {j + gallop}
         \cup (IF At(q, j + gallop).qid >= val.qid THEN {}
               ELSE gallopProbes(q, j, gallop * 2, val))

\* the loop is at an entry of ids whose qid is above that of the mapping
\* at j
Galloping ==
    /\ pc = "rel" /\ relInLoop(ids, qidToId, Rel)
    /\ At(ids, relI).qid > At(qidToId, relJ).qid

\* C24: getRelObjects returns; every iteration of its loop moves i or j
\* forward and neither beyond the end, and the galloping loop reads
\* _qidToId at indices below its size only and at fewer of them than it
\* has entries
C24_Terminates ==
    /\ <>(pc = "relDone")
    /\ [][/\ relI' >= relI /\ relJ' >= relJ
          /\ (pc = "rel" /\ pc' = "rel") => relI' > relI \/ relJ' > relJ
          /\ relI' <= Len(ids) /\ relJ' <= Len(qidToId)
          /\ Galloping =>
                /\ gallopProbes(qidToId, relJ, 1, At(ids, relI))
                       \subseteq 0..(Len(qidToId) - 1)
                /\ Cardinality(gallopProbes(qidToId, relJ, 1,
                                            At(ids, relI)))
                       < Len(qidToId)
                /\ relJ' > relJ]_vars

\* the loop has moved i forward and the galloping loop doubles its stride
C24_Witness ==
    /\ Galloping /\ relI > 0
    /\ Cardinality(gallopProbes(qidToId, relJ, 1, At(ids, relI))) >= 2

(***************************************************************************)
(* Requestor::request                                                      *)
(***************************************************************************)
Queries == {"q1", "q2"}

\* RequestReader::requestIds: reader.ids holds one (qid, result row) per row
\* of the query's result
readerIds(qry) ==
    IF qry = "q1"
    THEN <<IdMapping(QidOf(1), 0)>>
    ELSE <<IdMapping(QidOf(1), 0), IdMapping(QidOf(2), 1),
           IdMapping(QidOf(6), 2)>>

\* the objects whose GID is a point
pointObjects(o) == {k \in 0..(Len(o) - 1) : At(o, k).first < I_OFFSET}

\* the objects whose GID is not a point, the sentinel among them
lineObjectsAll(o) ==
    {k \in 0..(Len(o) - 1) : At(o, k).first >= I_OFFSET}

\* the objects whose GID is a line
lineObjects(o) ==
    {k \in 0..(Len(o) - 1) :
        At(o, k).first >= I_OFFSET /\ At(o, k).first < ID_MAX}

\* the calls of Requestor::request made so far
calls == backendRequests + Cardinality({t \in Threads : tpc[t] = "requestIds"})

\* the number of objects after which a section checks the memory (100000
\* in lines 153, 177 and 244)
MemCheckPeriod == 2

\* the three sections of lines 139-254
Sections == {"pgrid", "lgrid", "lpgrid"}

\* a Requestor in front of a cache that is ready and holds a point, a line
\* and a value that is no geometry, or in front of a cache not yet built
InitReq ==
    /\ rows = <<1, 2, 6>> /\ BackendIdle /\ ParserNew
    /\ \/ /\ pc = "ready"
          /\ points = <<parsePoint(WktPoint, 7)>>
          /\ lines = <<0>>
          /\ linePoints = insertedLine(parseLineString(WktLine, 12), FALSE)
          /\ qidToId = <<IdMapping(QidOf(2), I_OFFSET),
                         IdMapping(QidOf(1), 0),
                         IdMapping(QidOf(6), ID_MAX)>>
       \/ /\ pc = "new"
          /\ points = <<>> /\ lines = <<>> /\ linePoints = <<>>
          /\ qidToId = <<>>
    /\ RelIdle /\ RequestorIdle /\ Elsewhere

\* an entry that leaves _ready as it finds it
reqEnterStale(t) ==
    /\ tpc[t] = "idle" /\ calls < MaxCalls
    /\ \E qry \in Queries :
          /\ targ' = [targ EXCEPT ![t] = qry]
          /\ query' = qry
    /\ objects' = <<>>
    /\ tpc' = [tpc EXCEPT ![t] = "requestIds"]
    /\ UNCHANGED <<backendVars, parserVars, fileVars, vectorVars, idVars,
                   curRow, curUniqueGeom, overread, idsOutOfBounds, relVars,
                   ready, pgrid, lgrid, lpgrid, tids, backendRequests,
                   transferVars, sectionVars, diskVars, callVars>>

\* lines 24-27: a thread enters request(qry)
reqEnter(t) ==
    /\ tpc[t] = "idle" /\ calls < MaxCalls
    /\ \E qry \in Queries :
          /\ targ' = [targ EXCEPT ![t] = qry]
          /\ query' = qry
    /\ ready' = FALSE
    /\ objects' = <<>>
    /\ tpc' = [tpc EXCEPT ![t] = "requestIds"]
    /\ UNCHANGED <<backendVars, parserVars, fileVars, vectorVars, idVars,
                   curRow, curUniqueGeom, overread, idsOutOfBounds, relVars,
                   pgrid, lgrid, lpgrid, tids, backendRequests, transferVars,
                   sectionVars, diskVars, callVars>>

\* lines 29-33: the ids of the query's result are asked of the backend
reqIds(t) ==
    /\ tpc[t] = "requestIds"
    /\ query' = targ[t]
    /\ tids' = [tids EXCEPT ![t] = readerIds(targ[t])]
    /\ backendRequests' = backendRequests + 1
    /\ tpc' = [tpc EXCEPT ![t] = "join"]
    /\ UNCHANGED <<backendVars, parserVars, fileVars, vectorVars, idVars,
                   curRow, curUniqueGeom, overread, idsOutOfBounds, relVars,
                   ready, objects, pgrid, lgrid, lpgrid, targ, transferVars,
                   sectionVars, diskVars, callVars>>

\* lines 42-47: reader.ids is sorted and joined with the cache
reqJoin(t) ==
    /\ tpc[t] = "join"
    /\ \E sorted \in Sorts(tids[t]) :
          /\ tids' = [tids EXCEPT ![t] = sorted]
          /\ objects' = getRelObjects(sorted, qidToId)
    /\ tpc' = [tpc EXCEPT ![t] = "grids"]
    /\ UNCHANGED <<backendVars, parserVars, fileVars, vectorVars, idVars,
                   curRow, curUniqueGeom, overread, idsOutOfBounds, relVars,
                   query, ready, pgrid, lgrid, lpgrid, targ, backendRequests,
                   transferVars, sectionVars, diskVars, callVars>>

\* lines 52-135: the bounding boxes are taken; one of the checkMem calls of
\* lines 128-130 throws and the call ends, or the three grids are made anew
reqGrids(t) ==
    /\ tpc[t] = "grids"
    /\ \/ /\ tpc' = [tpc EXCEPT ![t] = "idle"]
          /\ UNCHANGED <<pgrid, lgrid, lpgrid, sectionVars>>
       \/ /\ pgrid' = {} /\ lgrid' = {} /\ lpgrid' = {}
          /\ ePtr' = [ePtr EXCEPT ![t] = FALSE]
          /\ secs' = [secs EXCEPT ![t] = {}]
          /\ tpc' = [tpc EXCEPT ![t] = "sections"]
    /\ UNCHANGED <<backendVars, parserVars, fileVars, vectorVars, idVars,
                   curRow, curUniqueGeom, overread, idsOutOfBounds, relVars,
                   query, ready, objects, targ, tids, backendRequests,
                   transferVars, diskVars, callVars>>

\* the numbers of objects a section can have gone through when it ends: all
\* of them, or a multiple of MemCheckPeriod at which checkMem throws
SectionEnds(o) ==
    {Len(o)} \cup {n \in 1..Len(o) : n % MemCheckPeriod = 0}

\* the objects of the set s among the first n
FirstOf(s, n) == {k \in s : k < n}

\* lines 141-254: the section sec of the call of t runs to its end or to
\* the break after a failed checkMem, which leaves the exception in ePtr; a
\* grid is the set of the objects put into it
reqSection(t, sec) ==
    /\ tpc[t] = "sections" /\ sec \notin secs[t]
    /\ \E n \in SectionEnds(objects), thrown \in BOOLEAN :
          /\ thrown => n % MemCheckPeriod = 0 /\ n > 0
          /\ ~thrown => n = Len(objects)
          /\ ePtr' = [ePtr EXCEPT ![t] = @ \/ thrown]
          /\ pgrid' = IF sec = "pgrid"
                      THEN pgrid \cup FirstOf(pointObjects(objects), n)
                      ELSE pgrid
          /\ lgrid' = IF sec = "lgrid"
                      THEN lgrid \cup FirstOf(lineObjects(objects), n)
                      ELSE lgrid
          /\ lpgrid' = IF sec = "lpgrid"
                       THEN lpgrid \cup FirstOf(lineObjects(objects), n)
                       ELSE lpgrid
    /\ secs' = [secs EXCEPT ![t] = @ \cup {sec}]
    /\ tpc' = [tpc EXCEPT ![t] =
                  IF secs[t] \cup {sec} = Sections THEN "finish" ELSE @]
    /\ UNCHANGED <<backendVars, parserVars, fileVars, vectorVars, idVars,
                   curRow, curUniqueGeom, overread, idsOutOfBounds, relVars,
                   query, ready, objects, targ, tids, backendRequests,
                   transferVars, diskVars, callVars>>

\* a return that sets _ready whatever ePtr holds
reqReturnAlways(t) ==
    /\ tpc[t] = "finish"
    /\ ready' = TRUE
    /\ tpc' = [tpc EXCEPT ![t] = "idle"]
    /\ UNCHANGED <<backendVars, parserVars, fileVars, vectorVars, idVars,
                   curRow, curUniqueGeom, overread, idsOutOfBounds, relVars,
                   query, objects, pgrid, lgrid, lpgrid, targ, tids,
                   backendRequests, transferVars, sectionVars, diskVars,
                   callVars>>

\* lines 256-260: the exception in ePtr is rethrown, else the Requestor is
\* ready and the call returns
reqReturn(t) ==
    /\ tpc[t] = "finish"
    /\ ready' = IF ePtr[t] THEN ready ELSE TRUE
    /\ tpc' = [tpc EXCEPT ![t] = "idle"]
    /\ UNCHANGED <<backendVars, parserVars, fileVars, vectorVars, idVars,
                   curRow, curUniqueGeom, overread, idsOutOfBounds, relVars,
                   query, objects, pgrid, lgrid, lpgrid, targ, tids,
                   backendRequests, transferVars, sectionVars, diskVars,
                   callVars>>

NextReq ==
    \E t \in Threads :
        \/ reqEnter(t)
        \/ reqIds(t)
        \/ reqJoin(t)
        \/ reqGrids(t)
        \/ \E sec \in Sections : reqSection(t, sec)
        \/ reqReturn(t)

SpecReq == InitReq /\ [][NextReq]_vars

\* C5: a call request(q) that finds the Requestor ready for q changes
\* nothing: when no call is under way and a thread enters request(query) on a
\* ready Requestor, the query, the objects, the grids and the ready flag stay
\* as they are and the backend is not asked
C5_Idempotent ==
    [][(/\ ready
        /\ \A t \in Threads : tpc[t] = "idle"
        /\ \E t \in Threads : tpc'[t] # "idle" /\ targ'[t] = query)
          => (/\ ready' /\ query' = query /\ objects' = objects
              /\ pgrid' = pgrid /\ lgrid' = lgrid /\ lpgrid' = lpgrid
              /\ backendRequests' = backendRequests
              /\ \A t \in Threads : tpc'[t] # "requestIds")]_vars

\* C6: the builds of one Requestor exclude each other: at most one thread
\* is inside the body of Requestor::request at any time
C6_MutualExclusion ==
    Cardinality({t \in Threads : tpc[t] # "idle"}) <= 1

\* the call of t raises in this step: a checkMem of lines 128-130 throws, or
\* line 256 rethrows
Raises(t) ==
    /\ tpc'[t] = "idle"
    /\ tpc[t] = "grids" \/ (tpc[t] = "finish" /\ ePtr[t])

C15_CacheNotReady ==
    pc # "ready" =>
        /\ backendRequests = 0
        /\ \A t \in Threads : tpc[t] \in {"idle", "requestIds"}

\* the calls of Requestor::request come one after the other: a call is
\* entered only when no call is under way
reqEnterSeq(t) ==
    /\ \A u \in Threads : tpc[u] = "idle"
    /\ reqEnter(t)

NextSeq ==
    \E t \in Threads :
        \/ reqEnterSeq(t)
        \/ reqIds(t)
        \/ reqJoin(t)
        \/ reqGrids(t)
        \/ \E sec \in Sections : reqSection(t, sec)
        \/ reqReturn(t)

SpecSeq == InitReq /\ [][NextSeq]_vars

\* what a call request(qry) that succeeds builds from the cache
BuiltBy(qry) ==
    /\ objects \in {getRelObjects(sorted, qidToId) :
                       sorted \in Sorts(readerIds(qry))}
    /\ pgrid = pointObjects(objects)
    /\ lgrid = lineObjects(objects)
    /\ lpgrid = lineObjects(objects)

\* C31: with the calls of request() one after the other, ready is false
\* while a call is under way, a ready Requestor holds the query, the
\* objects and the three grids that its latest call built, and a call that
\* raises leaves the Requestor not ready
C31_ReadyInvariant ==
    /\ [](\A t \in Threads : tpc[t] # "idle" => ~ready)
    /\ [](ready => BuiltBy(query))
    /\ [][\A t \in Threads :
            /\ (tpc[t] = "idle" /\ tpc'[t] # "idle")
                  => (query' = targ'[t] /\ ~ready')
            /\ tpc'[t] # "idle" => query' = targ'[t]
            /\ Raises(t) => ~ready'
            /\ (ready' /\ ~ready)
                  => (tpc[t] # "idle" => tpc[t] = "finish" /\ ~ePtr[t])]_vars

\* a call has raised after a failed check and a later call has made the
\* Requestor ready again
C31_Witness ==
    /\ ready /\ \A t \in Threads : tpc[t] = "idle"
    /\ \E u \in Threads : ePtr[u]
    /\ backendRequests >= 2 /\ objects # <<>>

(***************************************************************************)
(* The M-coord stream of one line and its readers                          *)
(***************************************************************************)
\* lines 407-429 of Requestor::getNearest: the vertices decoded from the
\* entries i .. end - 1 of lp, with (mainX, mainY) the major origin in force
\* and gi the number of plain entries seen
RECURSIVE decodeLine(_, _, _, _, _, _)
decodeLine(lp, i, end, mainX, mainY, gi) ==
    IF i >= end THEN <<>>
    ELSE IF isMCoord(At(lp, i).x)
    THEN decodeLine(lp, i + 1, end, rmCoord(At(lp, i).x),
                    rmCoord(At(lp, i).y), gi)
    ELSE IF gi + 1 < 3
    THEN decodeLine(lp, i + 1, end, mainX, mainY, gi + 1)
    ELSE <<FPoint(mainX * M_COORD_GRANULARITY + At(lp, i).x,
                  mainY * M_COORD_GRANULARITY + At(lp, i).y)>>
         \o decodeLine(lp, i + 1, end, mainX, mainY, gi + 1)

\* the box of a default-constructed util::geo::FBox
EmptyBox ==
    [ll |-> FPoint(Infinity, Infinity),
     ur |-> FPoint(0 - Infinity, 0 - Infinity)]

\* the loop of GeomCache::getLineBBox (lines 1250-1271) from the entry i;
\* s tells whether the lower left corner is set
RECURSIVE lineBBoxFrom(_, _, _, _, _, _, _)
lineBBoxFrom(lp, i, end, mainX, mainY, s, box) ==
    IF i >= end \/ i >= Len(lp) THEN box
    ELSE IF isMCoord(At(lp, i).x)
    THEN lineBBoxFrom(lp, i + 1, end, rmCoord(At(lp, i).x),
                      rmCoord(At(lp, i).y), s, box)
    ELSE IF ~s
    THEN lineBBoxFrom(lp, i + 1, end, mainX, mainY, TRUE,
             [box EXCEPT !.ll =
                 FPoint(mainX * M_COORD_GRANULARITY + At(lp, i).x,
                        mainY * M_COORD_GRANULARITY + At(lp, i).y)])
    ELSE [box EXCEPT !.ur =
             FPoint(mainX * M_COORD_GRANULARITY + At(lp, i).x,
                    mainY * M_COORD_GRANULARITY + At(lp, i).y)]

\* GeomCache::getLineBBox(lid) on the line points lp and the line starts
\* ls
getLineBBox(lp, ls, lid) ==
    lineBBoxFrom(lp, At(ls, lid), At(ls, lid) + 4, 0, 0, FALSE, EmptyBox)

\* GeomCache::getLineEnd(lid)
getLineEnd(lp, ls, lid) ==
    IF lid + 1 < Len(ls) THEN At(ls, lid + 1) ELSE Len(lp)

\* the coordinates a vertex of a line can have: on both sides of zero, on
\* both sides of a multiple of M_COORD_GRANULARITY, with a major origin
\* that no marker holds, and with one that no int16_t holds
LineXs ==
    {0 - 40000, 0 - M_COORD_GRANULARITY - 1, 0 - M_COORD_GRANULARITY, 0 - 5,
     0, 7, M_COORD_GRANULARITY - 1, M_COORD_GRANULARITY + 6,
     2 ^ 14 * M_COORD_GRANULARITY + 3, 2 ^ 15 * M_COORD_GRANULARITY + 9}

LineYs == {0 - M_COORD_GRANULARITY - 1, 0 - 3, 20000}

LinePoints == {FPoint(x, y) : x \in LineXs, y \in LineYs}

\* the lines handed to insertLine: of one vertex to MaxVertices vertices
LineInputs ==
    UNION {[1..n -> LinePoints] : n \in 1..MaxVertices}

\* a cache about to store one line
InitLine ==
    /\ rows = <<>> /\ pc = "line" /\ BackendIdle /\ ParserNew
    /\ points = <<>> /\ linePoints = <<>> /\ lines = <<>> /\ qidToId = <<>>
    /\ RelIdle /\ RequestorIdle
    /\ disk = <<>> /\ peer = NoVectors
    /\ call \in [l : LineInputs, isArea : BOOLEAN]
    /\ result = <<>> /\ locals = <<>>

\* lines 425-431 and 972-986: the line is stored by insertLine and the
\* files are read into the vectors
lineStored ==
    /\ pc = "line"
    /\ \E wild \in Wild :
          linePoints' = insertLine(call.l, call.isArea, wild)
    /\ lines' = <<0>>
    /\ pc' = "stored"
    /\ UNCHANGED <<rows, wire, offset, lastNum, pages, parserVars, fileVars,
                   points, qidToId, idVars, curRow, curUniqueGeom, overread,
                   idsOutOfBounds, relVars, requestorVars, threadVars,
                   transferVars, sectionVars, diskVars, call, result, locals>>

\* the readers go through the line: getLineBBox and the decoding loop
lineRead ==
    /\ pc = "stored"
    /\ result' = [box |-> getLineBBox(linePoints, lines, 0),
                  vertices |-> decodeLine(linePoints, At(lines, 0),
                                          getLineEnd(linePoints, lines, 0),
                                          0, 0, 0)]
    /\ pc' = "decoded"
    /\ UNCHANGED <<rows, wire, offset, lastNum, pages, parserVars, fileVars,
                   vectorVars, idVars, curRow, curUniqueGeom, overread,
                   idsOutOfBounds, relVars, requestorVars, threadVars,
                   transferVars, sectionVars, diskVars, call, locals>>

NextLine ==
    \/ lineStored
    \/ lineRead

SpecLine == InitLine /\ [][NextLine]_vars

\* C17: the vertices the readers decode from the stream insertLine wrote
\* are the vertices of the line, in order, each within one unit in both
\* coordinates
C17_RoundTrip ==
    pc = "decoded" =>
        /\ Len(result.vertices) = Len(call.l)
        /\ \A k \in 1..Len(call.l) :
              /\ result.vertices[k].x - call.l[k].x \in (0 - 1)..1
              /\ result.vertices[k].y - call.l[k].y \in (0 - 1)..1

\* C18: the box getLineBBox decodes from the head of the stream is not
\* inverted and contains every vertex decoded from the rest of it
C18_BoxContains ==
    pc = "decoded" =>
        /\ result.box.ll.x <= result.box.ur.x
        /\ result.box.ll.y <= result.box.ur.y
        /\ \A k \in 1..Len(result.vertices) :
              /\ result.box.ll.x <= result.vertices[k].x
              /\ result.vertices[k].x <= result.box.ur.x
              /\ result.box.ll.y <= result.vertices[k].y
              /\ result.vertices[k].y <= result.box.ur.y

Plain(lp, i) == ~isMCoord(At(lp, i).x)

\* the entries of the line lid
EntriesOf(lp, ls, lid) == At(ls, lid)..(getLineEnd(lp, ls, lid) - 1)

\* the entries the loop of getLineBBox (lines 1250-1271) reads for the line
\* lid: those from the start of the line up to the second one that is no
\* marker, four at most
bboxReads(lp, ls, lid) ==
    {i \in At(ls, lid)..(At(ls, lid) + 3) :
        Cardinality({j \in At(ls, lid)..(i - 1) :
                        j < Len(lp) /\ Plain(lp, j)}) < 2}

\* the line table is well formed
WellFormed(lp, ls) ==
    \A lid \in 0..(Len(ls) - 1) :
        /\ lid + 1 < Len(ls) => At(ls, lid) < At(ls, lid + 1)
        /\ At(ls, lid) < Len(lp)
        /\ Cardinality({i \in EntriesOf(lp, ls, lid) : Plain(lp, i)}) >= 3
        /\ bboxReads(lp, ls, lid) \subseteq EntriesOf(lp, ls, lid)
        /\ Cardinality({i \in bboxReads(lp, ls, lid) : Plain(lp, i)}) = 2

RECURSIVE pairFields(_)
pairFields(v) ==
    IF v = <<>> THEN <<>> ELSE <<v[1].x, v[1].y>> \o pairFields(Tail(v))

RECURSIVE mappingFields(_)
mappingFields(v) ==
    IF v = <<>> THEN <<>> ELSE <<v[1].qid, v[1].id>> \o mappingFields(Tail(v))

\* GeomCache::serializeToDisk: what is written to the file, field by field:
\* each vector's size and then its elements
serialized(c) ==
    <<Len(c.points)>> \o pairFields(c.points)
    \o <<Len(c.linePoints)>> \o pairFields(c.linePoints)
    \o <<Len(c.lines)>> \o c.lines
    \o <<Len(c.qidToId)>> \o mappingFields(c.qidToId)

\* f.read of n pairs, of n numbers and of n mappings from the 1-based
\* position pos of the file f
readPairs(f, pos, n) ==
    [k \in 1..n |-> FPoint(f[pos + 2 * (k - 1)], f[pos + 2 * (k - 1) + 1])]

readSizes(f, pos, n) == [k \in 1..n |-> f[pos + k - 1]]

readMappings(f, pos, n) ==
    [k \in 1..n |-> IdMapping(f[pos + 2 * (k - 1)], f[pos + 2 * (k - 1) + 1])]

\* the positions of the four sizes in the file f (lines 1285, 1290, 1295 and
\* 1299)
linePointsAt(f) == 2 + 2 * f[1]

linesAt(f) == linePointsAt(f) + 1 + 2 * f[linePointsAt(f)]

qidToIdAt(f) == linesAt(f) + 1 + f[linesAt(f)]

\* a fromDisk that reads the three vectors it has cleared and leaves
\* _qidToId as it was
deserializedInPart(f, prior) ==
    [points |-> readPairs(f, 2, f[1]),
     linePoints |-> readPairs(f, linePointsAt(f) + 1, f[linePointsAt(f)]),
     lines |-> readSizes(f, linesAt(f) + 1, f[linesAt(f)]),
     qidToId |-> prior.qidToId]

\* GeomCache::fromDisk: the vectors of a cache that held prior, after the
\* file f is read
deserialized(f, prior) ==
    [points |-> readPairs(f, 2, f[1]),
     linePoints |-> readPairs(f, linePointsAt(f) + 1, f[linePointsAt(f)]),
     lines |-> readSizes(f, linesAt(f) + 1, f[linesAt(f)]),
     qidToId |-> readMappings(f, qidToIdAt(f) + 1, f[qidToIdAt(f)])]

\* the vectors of this GeomCache
Vectors ==
    [points |-> points, linePoints |-> linePoints, lines |-> lines,
     qidToId |-> qidToId]

\* the sequences over s of at most MaxStored elements
UpToMaxStored(s) == UNION {[1..n -> s] : n \in 0..MaxStored}

\* the lines a stored cache holds: none, one line, or a line and an area
StoredLines ==
    {<<<<>>, <<>>>>,
     <<insertedLine(parseLineString(WktLine, 12), FALSE), <<0>>>>,
     <<insertedLine(parseLineString(WktLine, 12), FALSE)
           \o insertedLine(parseLineString(WktLine, 12), TRUE),
       <<0, Len(insertedLine(parseLineString(WktLine, 12), FALSE))>>>>}

\* the states of a cache that is written to disk or that reads from it
StoredCaches ==
    {[points |-> p, linePoints |-> l[1], lines |-> l[2], qidToId |-> q] :
        p \in UpToMaxStored({parsePoint(WktPoint, 7), parsePoint(WktPole, 7)}),
        l \in StoredLines,
        q \in UpToMaxStored({IdMapping(QidOf(1), 0),
                             IdMapping(QidOf(2), I_OFFSET)})}

\* a cache in any state, a second cache in any state, and no file
InitDisk ==
    /\ rows = <<>> /\ pc = "inMemory" /\ BackendIdle /\ ParserNew
    /\ \E c \in StoredCaches :
          /\ points = c.points /\ linePoints = c.linePoints
          /\ lines = c.lines /\ qidToId = c.qidToId
    /\ peer \in {NoVectors,
                 [points |-> <<parsePoint(WktPoint, 7)>>,
                  linePoints |-> <<FPoint(1, 1)>>, lines |-> <<0, 0>>,
                  qidToId |-> <<IdMapping(QidOf(3), 0),
                                IdMapping(QidOf(3), 1),
                                IdMapping(QidOf(4), 2)>>]}
    /\ disk = <<>>
    /\ RelIdle /\ RequestorIdle
    /\ call = <<>> /\ result = <<>> /\ locals = <<>>

\* GeomCache::serializeToDisk on this cache
serializeToDisk ==
    /\ pc = "inMemory"
    /\ disk' = serialized(Vectors)
    /\ pc' = "onDisk"
    /\ UNCHANGED <<rows, wire, offset, lastNum, pages, parserVars, fileVars,
                   vectorVars, idVars, curRow, curUniqueGeom, overread,
                   idsOutOfBounds, relVars, requestorVars, threadVars,
                   transferVars, sectionVars, peer, callVars>>

\* GeomCache::fromDisk on the second cache
fromDisk ==
    /\ pc = "onDisk"
    /\ peer' = deserialized(disk, peer)
    /\ pc' = "loaded"
    /\ UNCHANGED <<rows, wire, offset, lastNum, pages, parserVars, fileVars,
                   vectorVars, idVars, curRow, curUniqueGeom, overread,
                   idsOutOfBounds, relVars, requestorVars, threadVars,
                   transferVars, sectionVars, disk, callVars>>

NextDisk ==
    \/ serializeToDisk
    \/ fromDisk

SpecDisk == InitDisk /\ [][NextDisk]_vars

\* C16: after serializeToDisk on one cache and fromDisk on a cache in any
\* prior state, the points, the line points, the lines and the mappings of
\* the second are those of the first, element for element and in order
C16_DiskRoundTrip ==
    pc = "loaded" =>
        /\ peer.points = points
        /\ peer.linePoints = linePoints
        /\ peer.lines = lines
        /\ peer.qidToId = qidToId

\* a cache that held other vectors has read a file with points, two lines
\* and mappings
C16_Witness ==
    /\ pc = "loaded"
    /\ Len(peer.points) = 2 /\ Len(peer.lines) = 2
    /\ Len(peer.qidToId) = 1 /\ peer.linePoints # <<>>

(***************************************************************************)
(* Requestor::getNearest                                                   *)
(***************************************************************************)
\* a squared distance as a fraction, so that distances to different
\* segments compare without rounding
Frac(n, d) == [n |-> n, d |-> d]

FracLess(a, b) == a.n * b.d < b.n * a.d

\* std::numeric_limits<double>::max() and infinity
DoubleMax == Frac(Infinity, 1)

DoubleInf == Frac(2 * Infinity, 1)

\* util::geo::pad(util::geo::getBoundingBox(rp), rad)
pad(rp, rad) ==
    [ll |-> FPoint(rp.x - rad, rp.y - rad),
     ur |-> FPoint(rp.x + rad, rp.y + rad)]

\* util::geo::contains(p, box)
contains(p, box) ==
    /\ p.x >= box.ll.x /\ p.x <= box.ur.x
    /\ p.y >= box.ll.y /\ p.y <= box.ur.y

\* util::geo::intersects(a, b) of two boxes
intersects(a, b) ==
    /\ a.ll.x <= b.ur.x /\ a.ur.x >= b.ll.x
    /\ a.ll.y <= b.ur.y /\ a.ur.y >= b.ll.y

\* the least of the distances fs
LeastOf(fs) == CHOOSE f \in fs : \A g \in fs : ~FracLess(g, f)

\* lines 311-322: the points of the grid inside the box, and the distance
\* of the object i
pointCandidates(box) ==
    {i \in pgrid : contains(At(points, At(objects, i).first), box)}

pointDist(i, rp) == Frac(SqDist(At(points, At(objects, i).first), rp), 1)

\* lines 330-333: the lines of the grid whose box meets the box
lineCandidates(box) ==
    {i \in lgrid :
        intersects(getLineBBox(linePoints, lines,
                               At(objects, i).first - I_OFFSET), box)}

\* lines 364-387: the segments of the vertices v from the k-th on; d is the
\* least distance so far, and a distance below 0.0001 ends the loop with 0
RECURSIVE segmentsDist(_, _, _, _)
segmentsDist(v, k, rp, d) ==
    IF k >= Len(v) THEN d
    ELSE IF SegDistScaled(v[k], v[k + 1], rp) = 0 THEN Frac(0, 1)
    ELSE IF FracLess(Frac(SegDistScaled(v[k], v[k + 1], rp),
                          SegScale(v[k], v[k + 1])), d)
    THEN segmentsDist(v, k + 1, rp,
                      Frac(SegDistScaled(v[k], v[k + 1], rp),
                           SegScale(v[k], v[k + 1])))
    ELSE segmentsDist(v, k + 1, rp, d)

\* lines 335-387: the distance of the line object i
lineDist(i, rp) ==
    segmentsDist(
        decodeLine(linePoints, At(lines, At(objects, i).first - I_OFFSET),
                   getLineEnd(linePoints, lines,
                              At(objects, i).first - I_OFFSET), 0, 0, 0),
        1, rp, DoubleInf)

\* dBest and dBestL after the two sections
dBestPoint(rp, rad) ==
    LeastOf({DoubleMax}
            \cup {pointDist(i, rp) : i \in pointCandidates(pad(rp, rad))})

dBestLine(rp, rad) ==
    LeastOf({DoubleMax}
            \cup {lineDist(i, rp) : i \in lineCandidates(pad(rp, rad))})

\* nearest and nearestL after the two sections: a candidate at the least
\* distance, the first of them in the order of the unordered set, or 0
nearestPoints(rp, rad) ==
    IF \E i \in pointCandidates(pad(rp, rad)) :
           FracLess(pointDist(i, rp), DoubleMax)
    THEN {i \in pointCandidates(pad(rp, rad)) :
             ~FracLess(dBestPoint(rp, rad), pointDist(i, rp))}
    ELSE {0}

nearestLines(rp, rad) ==
    IF \E i \in lineCandidates(pad(rp, rad)) :
           FracLess(lineDist(i, rp), DoubleMax)
    THEN {i \in lineCandidates(pad(rp, rad)) :
             ~FracLess(dBestLine(rp, rad), lineDist(i, rp))}
    ELSE {0}

\* a choice between the point and the line in which a tie goes to the line
hitKindLineFirst(dBest, dBestL, rad) ==
    IF FracLess(dBestL, Frac(rad * rad, 1)) /\ ~FracLess(dBest, dBestL)
    THEN "line"
    ELSE IF FracLess(dBest, Frac(rad * rad, 1)) /\ ~FracLess(dBestL, dBest)
    THEN "point"
    ELSE "none"

\* lines 396-435: which of the three return statements is taken
hitKind(dBest, dBestL, rad) ==
    IF FracLess(dBest, Frac(rad * rad, 1)) /\ ~FracLess(dBestL, dBest)
    THEN "point"
    ELSE IF FracLess(dBestL, Frac(rad * rad, 1)) /\ ~FracLess(dBest, dBestL)
    THEN "line"
    ELSE "none"

\* the ring of the area of the cache below: an axis-parallel rectangle
AreaRing ==
    <<FPoint(0, 0), FPoint(12, 0), FPoint(12, 12), FPoint(0, 12),
      FPoint(0, 0)>>

OpenLine == <<FPoint(14, 0), FPoint(20, 6)>>

\* the points and the radii getNearest is asked for
QueryPoints == {FPoint(x, y) : x \in {1, 6, 13, 17, 20}, y \in {1, 6, 8, 13}}

Radii == {1, 2, 5}

\* a ready Requestor whose objects are a point, an open line and an area
NearReady ==
    /\ rows = <<>> /\ pc = "ready" /\ BackendIdle /\ ParserNew
    /\ points = <<FPoint(20, 10)>>
    /\ linePoints = insertedLine(OpenLine, FALSE)
                        \o insertedLine(AreaRing, TRUE)
    /\ lines = <<0, Len(insertedLine(OpenLine, FALSE))>>
    /\ qidToId = <<IdMapping(QidOf(1), 0), IdMapping(QidOf(2), I_OFFSET),
                   IdMapping(QidOf(3), I_OFFSET + 1)>>
    /\ RelIdle
    /\ query = "q2" /\ ready = TRUE
    /\ objects = <<[first |-> 0, second |-> 0],
                   [first |-> I_OFFSET, second |-> 1],
                   [first |-> I_OFFSET + 1, second |-> 2]>>
    /\ pgrid = {0} /\ lgrid = {1, 2} /\ lpgrid = {1, 2}
    /\ tpc = [t \in Threads |-> "idle"]
    /\ targ = [t \in Threads |-> ""]
    /\ tids = [t \in Threads |-> <<>>]
    /\ backendRequests = 0
    /\ ePtr = [t \in Threads |-> FALSE]
    /\ secs = [t \in Threads |-> {}]

InitNear == NearReady /\ Elsewhere

\* what getNearest returns for the kind of hit, and the rows it has asked
\* the backend for by requestRow
ResObj(kind, nearest, nearestL) ==
    [hit |-> kind # "none", kind |-> kind,
     object |-> IF kind = "point" THEN nearest
                ELSE IF kind = "line" THEN nearestL ELSE 0]

returned(kind, nearest, nearestL) ==
    /\ result' = ResObj(kind, nearest, nearestL)
    /\ backendRequests' =
           IF kind = "none" THEN backendRequests ELSE backendRequests + 1

\* Requestor::getNearest(rp, rad)
getNearest ==
    /\ pc = "ready" /\ ready /\ backendRequests < MaxCalls
    /\ \E rp \in QueryPoints, rad \in Radii :
          /\ call' = [rp |-> rp, rad |-> rad]
          /\ \E nearest \in nearestPoints(rp, rad),
                nearestL \in nearestLines(rp, rad) :
                returned(hitKind(dBestPoint(rp, rad), dBestLine(rp, rad),
                                 rad),
                         nearest, nearestL)
    /\ UNCHANGED <<backendVars, parserVars, fileVars, vectorVars, idVars,
                   curRow, curUniqueGeom, overread, idsOutOfBounds, relVars,
                   requestorVars, tpc, targ, tids, transferVars, sectionVars,
                   diskVars, locals>>

NextNear == getNearest

SpecNear == InitNear /\ [][NextNear]_vars

\* C19: the point is returned iff dBest < rad and dBest <= dBestL;
\* otherwise the line is returned iff dBestL < rad; otherwise there is no
\* hit, and then the backend is not asked for a row
C19_DecisionRule ==
    [][/\ result'.kind =
            IF /\ FracLess(dBestPoint(call'.rp, call'.rad),
                           Frac(call'.rad * call'.rad, 1))
               /\ ~FracLess(dBestLine(call'.rp, call'.rad),
                            dBestPoint(call'.rp, call'.rad))
            THEN "point"
            ELSE IF FracLess(dBestLine(call'.rp, call'.rad),
                             Frac(call'.rad * call'.rad, 1))
            THEN "line"
            ELSE "none"
       /\ result'.hit = (result'.kind # "none")
       /\ ~result'.hit => backendRequests' = backendRequests
       /\ result'.hit => backendRequests' = backendRequests + 1]_vars

\* the point and the line are equally far and within the radius, and the
\* point is returned
C19_Witness ==
    /\ call # <<>> /\ result.kind = "point"
    /\ ~FracLess(dBestPoint(call.rp, call.rad), dBestLine(call.rp, call.rad))
    /\ ~FracLess(dBestLine(call.rp, call.rad), dBestPoint(call.rp, call.rad))

\* whether p lies inside the rectangle whose border is ring
InsideRing(p, ring) ==
    /\ p.x > getBoundingBox(ring).ll.x /\ p.x < getBoundingBox(ring).ur.x
    /\ p.y > getBoundingBox(ring).ll.y /\ p.y < getBoundingBox(ring).ur.y

\* C20: for a point inside the ring of the area, the area counts as rad / 4
\* away: when no point and no other line is nearer than that, the area is
\* returned, also when its border is farther than rad
C20_InsideArea ==
    (/\ call # <<>>
     /\ InsideRing(call.rp, AreaRing)
     /\ ~FracLess(dBestPoint(call.rp, call.rad),
                  Frac(call.rad * call.rad, 16))
     /\ ~FracLess(lineDist(1, call.rp), Frac(call.rad * call.rad, 16)))
        => (result.hit /\ result.object = 2)

(***************************************************************************)
(* Threads calling Requestor::getNearest on one Requestor                  *)
(***************************************************************************)
\* the calls the threads make
NearCalls ==
    {[rp |-> FPoint(20, 8), rad |-> 5], [rp |-> FPoint(6, 6), rad |-> 2],
     [rp |-> FPoint(17, 1), rad |-> 5], [rp |-> FPoint(1, 6), rad |-> 2]}

\* one stack for all the calls
frameShared(t) == "t1"

\* lines 300-303: nearest, dBest, nearestL and dBestL are on the stack of
\* the call; frameOf(t) is the stack of the call of the thread t
frameOf(t) == t

InitNearThreads ==
    /\ NearReady
    /\ disk = <<>> /\ peer = NoVectors
    /\ call = [t \in Threads |-> <<>>]
    /\ result = [t \in Threads |-> <<>>]
    /\ locals = [t \in Threads |-> <<>>]

\* lines 297-303: the thread t calls getNearest(rp, rad)
nearEnter(t) ==
    /\ tpc[t] = "idle" /\ ready /\ backendRequests < MaxCalls
    /\ \E c \in NearCalls : call' = [call EXCEPT ![t] = c]
    /\ locals' = [locals EXCEPT ![frameOf(t)] =
                     [nearest |-> 0, dBest |-> DoubleMax,
                      nearestL |-> 0, dBestL |-> DoubleMax]]
    /\ secs' = [secs EXCEPT ![t] = {}]
    /\ tpc' = [tpc EXCEPT ![t] = "nearest"]
    /\ UNCHANGED <<backendVars, parserVars, fileVars, vectorVars, idVars,
                   curRow, curUniqueGeom, overread, idsOutOfBounds, relVars,
                   requestorVars, targ, tids, backendRequests, transferVars,
                   ePtr, diskVars, result>>

\* lines 306-323: the section of the points
nearPoints(t) ==
    /\ tpc[t] = "nearest" /\ "points" \notin secs[t]
    /\ \E n \in nearestPoints(call[t].rp, call[t].rad) :
          locals' = [locals EXCEPT
                        ![frameOf(t)].nearest = n,
                        ![frameOf(t)].dBest =
                            dBestPoint(call[t].rp, call[t].rad)]
    /\ secs' = [secs EXCEPT ![t] = @ \cup {"points"}]
    /\ UNCHANGED <<backendVars, parserVars, fileVars, vectorVars, idVars,
                   curRow, curUniqueGeom, overread, idsOutOfBounds, relVars,
                   requestorVars, threadVars, transferVars, ePtr, diskVars,
                   call, result>>

\* lines 326-393: the section of the lines
nearLines(t) ==
    /\ tpc[t] = "nearest" /\ "lines" \notin secs[t]
    /\ \E n \in nearestLines(call[t].rp, call[t].rad) :
          locals' = [locals EXCEPT
                        ![frameOf(t)].nearestL = n,
                        ![frameOf(t)].dBestL =
                            dBestLine(call[t].rp, call[t].rad)]
    /\ secs' = [secs EXCEPT ![t] = @ \cup {"lines"}]
    /\ UNCHANGED <<backendVars, parserVars, fileVars, vectorVars, idVars,
                   curRow, curUniqueGeom, overread, idsOutOfBounds, relVars,
                   requestorVars, threadVars, transferVars, ePtr, diskVars,
                   call, result>>

\* lines 396-435 and 264-274: the call returns; requestRow sends its
\* request from a reader of its own
nearReturn(t) ==
    /\ tpc[t] = "nearest" /\ secs[t] = {"points", "lines"}
    /\ result' = [result EXCEPT ![t] =
                     ResObj(hitKind(locals[frameOf(t)].dBest,
                                    locals[frameOf(t)].dBestL, call[t].rad),
                            locals[frameOf(t)].nearest,
                            locals[frameOf(t)].nearestL)]
    /\ backendRequests' =
           IF hitKind(locals[frameOf(t)].dBest, locals[frameOf(t)].dBestL,
                      call[t].rad) = "none"
           THEN backendRequests ELSE backendRequests + 1
    /\ tpc' = [tpc EXCEPT ![t] = "idle"]
    /\ UNCHANGED <<backendVars, parserVars, fileVars, vectorVars, idVars,
                   curRow, curUniqueGeom, overread, idsOutOfBounds, relVars,
                   requestorVars, targ, tids, transferVars, sectionVars,
                   diskVars, call, locals>>

NextNearThreads ==
    \E t \in Threads :
        \/ nearEnter(t)
        \/ nearPoints(t)
        \/ nearLines(t)
        \/ nearReturn(t)

SpecNearThreads == InitNearThreads /\ [][NextNearThreads]_vars

\* what the call c returns when it runs alone
AloneResults(c) ==
    {ResObj(hitKind(dBestPoint(c.rp, c.rad), dBestLine(c.rp, c.rad), c.rad),
            n, nL) :
        n \in nearestPoints(c.rp, c.rad), nL \in nearestLines(c.rp, c.rad)}

\* C21: no step of a getNearest call writes a field of the Requestor or of
\* the GeomCache, and however the calls of the threads interleave, each
\* call returns what it returns when it runs alone
C21_ReadOnly ==
    [][/\ UNCHANGED <<requestorVars, vectorVars>>
       /\ \A t \in Threads :
             (tpc[t] = "nearest" /\ tpc'[t] = "idle")
                 => result'[t] \in AloneResults(call[t])]_vars

\* a call has returned a hit and two calls with different arguments are
\* under way, each with one of its sections done
C21_Witness ==
    /\ result["t1"] # <<>> /\ result["t1"].hit
    /\ tpc["t1"] = "nearest" /\ tpc["t2"] = "nearest"
    /\ call["t1"] # call["t2"]
    /\ secs["t1"] = {"points"} /\ secs["t2"] = {"lines"}

(***************************************************************************)
(* The WKT pass row by row, with rows that hold no valid geometry          *)
(***************************************************************************)
\* the rows taken in
MaxIngested == 3

\* "POINT(NaN 0)": a coordinate that is no number
WktNaN ==
    <<"\"", "P", "O", "I", "N", "T", "(", "N", "a", "N", " ", "0", ")", "\"">>

\* "LINESTRING(0 90,1 90)": every vertex at the pole
WktLinePoles ==
    <<"\"", "L", "I", "N", "E", "S", "T", "R", "I", "N", "G", "(", "0", " ",
    "9", "0", ",", "1", " ", "9", "0", ")", "\"">>

\* the rows the backend serves
RowTexts == {WktPoint, WktLine, WktNaN, WktPole, WktLinePoles, WktOther}

\* the rows that hold no valid geometry
InvalidTexts == {WktNaN, WktPole, WktLinePoles, WktOther}

\* the WKT pass after the header line of the first page
InitRows ==
    /\ rows = <<>> /\ wire = <<>> /\ pc = "part"
    /\ offset = 0 /\ lastNum = 0 - 1 /\ pages = 1
    /\ exceptionPtr = FALSE /\ res = CURLE_OK
    /\ state = "IN_ROW" /\ dangling = <<>> /\ prev = <<>>
    /\ lastQidToId = IdMapping(QID_NONE, ID_MAX)
    /\ pointsF = <<>> /\ linePointsF = <<>> /\ linesF = <<>>
    /\ qidToIdF = <<>>
    /\ curRow = 0 /\ curUniqueGeom = 0
    /\ curByte = 0 /\ curId = [k \in 1..8 |-> 0] /\ maxQid = 0
    /\ overread = FALSE /\ idsOutOfBounds = FALSE
    /\ points = <<>> /\ linePoints = <<>> /\ lines = <<>> /\ qidToId = <<>>
    /\ RelIdle /\ RequestorIdle /\ Elsewhere

\* GeomCache::writeCb with a fragment that is one row and its newline
rowIn ==
    /\ pc = "part" /\ curRow < MaxIngested
    /\ \E w \in RowTexts : parsed(parse(Cache, w \o <<NL>>, CR))
    /\ UNCHANGED <<backendVars, vectorVars, idVars, idsOutOfBounds, relVars,
                   requestorVars, threadVars, transferVars, sectionVars,
                   diskVars, callVars>>

NextRows == rowIn

SpecRows == InitRows /\ [][NextRows]_vars

\* C22: a row that holds no valid geometry writes exactly one mapping,
\* which has the GID UINT_MAX, and adds nothing to points, lines and
\* linePoints
C22_Sentinel ==
    [][(curRow' = curRow + 1 /\ prev' \in InvalidTexts)
          => /\ qidToIdF' = Append(qidToIdF, IdMapping(0, ID_MAX))
             /\ pointsF' = pointsF
             /\ linesF' = linesF
             /\ linePointsF' = linePointsF]_vars

(***************************************************************************)
(* The binary-id pass over a _qidToId that is not the one of the rows      *)
(***************************************************************************)
\* what the WKT pass can have left in _qidToId: nothing, as before the
\* first WKT pass, or primary mappings and their continuations
Placeholders ==
    {<<>>, <<IdMapping(0, 0)>>, <<IdMapping(0, 0), IdMapping(0, 1)>>,
     <<IdMapping(0, I_OFFSET), IdMapping(1, I_OFFSET + 1)>>}

\* a cache whose vectors are built, in front of a backend whose result
\* need not be the one the vectors were built from
InitIds ==
    /\ rows \in Results
    /\ pc = "built" /\ BackendIdle /\ ParserNew
    /\ points = <<>> /\ linePoints = <<>> /\ lines = <<>>
    /\ qidToId \in Placeholders
    /\ RelIdle /\ RequestorIdle /\ Elsewhere

NextIds ==
    \/ requestIds
    \/ writeCbIds
    \/ idsDone

SpecIds == InitIds /\ [][NextIds]_vars

\* C29: parseIds neither reads nor writes _qidToId at an index that is not
\* below its size
C29_IdsInBounds == ~idsOutOfBounds

(***************************************************************************)
(* The fork-join phases of Requestor::request                              *)
(***************************************************************************)
\* the objects of the Requestor, and NUM_THREADS
MaxObjects == 3

MaxWorkers == 3

Max(a, b) == IF a > b THEN a ELSE b

\* util::geo::extendBox(p, box) for a point p
extendBoxPoint(p, box) ==
    [ll |-> FPoint(Min(p.x, box.ll.x), Min(p.y, box.ll.y)),
     ur |-> FPoint(Max(p.x, box.ur.x), Max(p.y, box.ur.y))]

\* util::geo::extendBox(a, b) for a box a
extendBox(a, b) ==
    [ll |-> FPoint(Min(a.ll.x, b.ll.x), Min(a.ll.y, b.ll.y)),
     ur |-> FPoint(Max(a.ur.x, b.ur.x), Max(a.ur.y, b.ur.y))]

\* util::geo::pad(box, d); the corners of the default box are the ends of
\* the float range, which padding leaves where they are
padBox(box, d) ==
    IF box = EmptyBox THEN box
    ELSE [ll |-> FPoint(box.ll.x - d, box.ll.y - d),
          ur |-> FPoint(box.ur.x + d, box.ur.y + d)]

\* n / k rounded down
batchFloor(n, k) == n \div k

\* line 60: ceil(static_cast<double>(_objects.size()) / NUM_THREADS)
batch(n, k) == (n + k - 1) \div k

\* one slot for all the threads
slotShared(t) == 0

\* lines 68-76: the slot of pointBoxes, lineBoxes and numLines the thread t
\* of the loop writes
slotOf(t) == t

\* lines 63-78: the inner loop from the object i to the object before hi;
\* acc holds pointBoxes[t], lineBoxes[t] and numLines[t]
RECURSIVE chunkBoxes(_, _, _, _)
chunkBoxes(o, i, hi, acc) ==
    IF i >= hi \/ i >= Len(o) THEN acc
    ELSE IF At(o, i).first < I_OFFSET
    THEN chunkBoxes(o, i + 1, hi,
             [acc EXCEPT !.point =
                 extendBoxPoint(At(points, At(o, i).first), @)])
    ELSE IF At(o, i).first < ID_MAX
    THEN chunkBoxes(o, i + 1, hi,
             [acc EXCEPT !.line =
                 extendBox(getLineBBox(linePoints, lines,
                                       At(o, i).first - I_OFFSET), @),
                         !.numLines = @ + 1])
    ELSE chunkBoxes(o, i + 1, hi, acc)

\* lines 82-92: the slots from the k-th on are reduced into acc
RECURSIVE reduced(_, _, _)
reduced(l, k, acc) ==
    IF k > Len(l.pointBoxes) THEN acc
    ELSE reduced(l, k + 1,
             [point |-> extendBox(l.pointBoxes[k], acc.point),
              line |-> extendBox(l.lineBoxes[k], acc.line),
              numLines |-> acc.numLines + l.numLines[k]])

NoBoxes == [point |-> EmptyBox, line |-> EmptyBox, numLines |-> 0]

\* pointBoxes[k], lineBoxes[k] and numLines[k] of the locals l
slotBoxes(l, k) ==
    [point |-> l.pointBoxes[k], line |-> l.lineBoxes[k],
     numLines |-> l.numLines[k]]

\* the GIDs of the objects: two points, two lines, and no geometry
BoxGids == {0, 1, I_OFFSET, I_OFFSET + 1, ID_MAX}

BoxObjects ==
    UNION {{[k \in 1..n |-> [first |-> f[k], second |-> k - 1]]
               : f \in [1..n -> BoxGids]}
           : n \in 0..MaxObjects}

\* lines 52-60: the call of the thread t1 has joined its ids with the
\* cache and has made the slots of its NUM_THREADS threads
InitBox ==
    /\ rows = <<>> /\ pc = "ready" /\ BackendIdle /\ ParserNew
    /\ points = <<FPoint(20, 10), FPoint(0 - 5, 3)>>
    /\ linePoints = insertedLine(OpenLine, FALSE)
                        \o insertedLine(AreaRing, TRUE)
    /\ lines = <<0, Len(insertedLine(OpenLine, FALSE))>>
    /\ qidToId = <<>>
    /\ RelIdle
    /\ query = "q2" /\ ready = FALSE
    /\ objects \in BoxObjects
    /\ pgrid = {} /\ lgrid = {} /\ lpgrid = {}
    /\ tpc = [t \in Threads |-> IF t = "t1" THEN "boxes" ELSE "idle"]
    /\ targ = [t \in Threads |-> IF t = "t1" THEN "q2" ELSE ""]
    /\ tids = [t \in Threads |-> <<>>]
    /\ backendRequests = 1
    /\ ePtr = [t \in Threads |-> FALSE]
    /\ secs = [t \in Threads |-> {}]
    /\ disk = <<>> /\ peer = NoVectors
    /\ call = <<>> /\ result = <<>>
    /\ \E k \in 1..MaxWorkers :
          locals = [t \in Threads |->
                       IF t = "t1"
                       THEN [numThreads |-> k,
                             pointBoxes |-> [w \in 1..k |-> EmptyBox],
                             lineBoxes |-> [w \in 1..k |-> EmptyBox],
                             numLines |-> [w \in 1..k |-> 0],
                             done |-> {},
                             pointBbox |-> EmptyBox, lineBbox |-> EmptyBox,
                             numLinesAll |-> 0]
                       ELSE <<>>]

\* lines 62-80: the thread w of the loop goes through its batch
boxChunk(t, w) ==
    /\ tpc[t] = "boxes"
    /\ w \in 0..(locals[t].numThreads - 1) /\ w \notin locals[t].done
    /\ locals' =
          [locals EXCEPT
              ![t].done = @ \cup {w},
              ![t].pointBoxes[slotOf(w) + 1] =
                  chunkBoxes(objects,
                             batch(Len(objects), locals[t].numThreads) * w,
                             batch(Len(objects), locals[t].numThreads)
                                 * (w + 1),
                             slotBoxes(locals[t], slotOf(w) + 1)).point,
              ![t].lineBoxes[slotOf(w) + 1] =
                  chunkBoxes(objects,
                             batch(Len(objects), locals[t].numThreads) * w,
                             batch(Len(objects), locals[t].numThreads)
                                 * (w + 1),
                             slotBoxes(locals[t], slotOf(w) + 1)).line,
              ![t].numLines[slotOf(w) + 1] =
                  chunkBoxes(objects,
                             batch(Len(objects), locals[t].numThreads) * w,
                             batch(Len(objects), locals[t].numThreads)
                                 * (w + 1),
                             slotBoxes(locals[t], slotOf(w) + 1)).numLines]
    /\ UNCHANGED <<backendVars, parserVars, fileVars, vectorVars, idVars,
                   curRow, curUniqueGeom, overread, idsOutOfBounds, relVars,
                   requestorVars, threadVars, transferVars, sectionVars,
                   diskVars, call, result>>

\* lines 82-96: the threads have joined; the slots are reduced and the two
\* boxes padded
boxReduce(t) ==
    /\ tpc[t] = "boxes"
    /\ locals[t].done = 0..(locals[t].numThreads - 1)
    /\ locals' =
          [locals EXCEPT
              ![t].pointBbox = padBox(reduced(locals[t], 1, NoBoxes).point, 1),
              ![t].lineBbox = padBox(reduced(locals[t], 1, NoBoxes).line, 1),
              ![t].numLinesAll = reduced(locals[t], 1, NoBoxes).numLines]
    /\ tpc' = [tpc EXCEPT ![t] = "grids"]
    /\ UNCHANGED <<backendVars, parserVars, fileVars, vectorVars, idVars,
                   curRow, curUniqueGeom, overread, idsOutOfBounds, relVars,
                   requestorVars, targ, tids, backendRequests, transferVars,
                   sectionVars, diskVars, call, result>>

NextBox ==
    \E t \in Threads :
        \/ \E w \in 0..(MaxWorkers - 1) : boxChunk(t, w)
        \/ boxReduce(t)
        \/ reqGrids(t)
        \/ \E sec \in Sections : reqSection(t, sec)
        \/ reqReturn(t)

SpecBox == InitBox /\ [][NextBox]_vars

\* the first object of the batch of the thread w, and the one after its last
chunkLo(l, w) == batch(Len(objects), l.numThreads) * w

chunkHi(l, w) == Min(batch(Len(objects), l.numThreads) * (w + 1), Len(objects))

\* C25: the thread w of the bounding-box loop writes the slot w of
\* pointBoxes, lineBoxes and numLines only; each of the three sections
\* writes its own grid only; ePtr is written by a section only; and no
\* step of the phases writes objects
C25_DisjointWrites ==
    [][/\ objects' = objects
       /\ \A w \in 0..(MaxWorkers - 1) :
             (tpc["t1"] = "boxes" /\ w \notin locals["t1"].done
                 /\ w \in locals'["t1"].done)
                => /\ \A v \in 1..locals["t1"].numThreads :
                         v # w + 1 =>
                            slotBoxes(locals'["t1"], v)
                               = slotBoxes(locals["t1"], v)
                   /\ UNCHANGED <<pgrid, lgrid, lpgrid, ePtr>>
       /\ \A sec \in Sections :
             (sec \notin secs["t1"] /\ sec \in secs'["t1"])
                => /\ sec # "pgrid" => pgrid' = pgrid
                   /\ sec # "lgrid" => lgrid' = lgrid
                   /\ sec # "lpgrid" => lpgrid' = lpgrid
                   /\ locals' = locals
       /\ ePtr' # ePtr => secs'["t1"] # secs["t1"]]_vars

\* two threads of the loop have written their slots, two sections have
\* written their grids, and one of them has left an exception in ePtr
C25_Witness ==
    /\ tpc["t1"] = "sections" /\ Cardinality(secs["t1"]) = 2
    /\ ePtr["t1"]
    /\ locals["t1"].numThreads >= 2
    /\ locals["t1"].pointBoxes[1] # EmptyBox
    /\ locals["t1"].lineBoxes[2] # EmptyBox
    /\ pgrid # {} /\ lgrid # {}

\* C26: the batches of the threads hold every object once, and the
\* reduced boxes and the number of lines are those of one pass over all
\* the objects
C26_ChunksCover ==
    /\ \A i \in 0..(Len(objects) - 1) :
          Cardinality({w \in 0..(locals["t1"].numThreads - 1) :
                          chunkLo(locals["t1"], w) <= i
                             /\ i < chunkHi(locals["t1"], w)}) = 1
    /\ tpc["t1"] # "boxes" =>
          /\ locals["t1"].pointBbox =
                 padBox(chunkBoxes(objects, 0, Len(objects), NoBoxes).point,
                        1)
          /\ locals["t1"].lineBbox =
                 padBox(chunkBoxes(objects, 0, Len(objects), NoBoxes).line,
                        1)
          /\ locals["t1"].numLinesAll =
                 chunkBoxes(objects, 0, Len(objects), NoBoxes).numLines

\* three objects in the batches of two threads: the second batch is the
\* shorter one, and both hold a geometry
C26_Witness ==
    /\ tpc["t1"] = "grids"
    /\ Len(objects) = 3 /\ locals["t1"].numThreads = 2
    /\ At(objects, 0).first = 0 /\ At(objects, 2).first = I_OFFSET + 1
    /\ locals["t1"].numLinesAll = 1
    /\ locals["t1"].pointBoxes[1] # EmptyBox
    /\ locals["t1"].lineBoxes[2] # EmptyBox

(***************************************************************************)
(* Requestor::request from the bounding boxes on, then getNearest          *)
(***************************************************************************)
\* the objects with the GID of no geometry
sentinels == {i \in 0..(Len(objects) - 1) : At(objects, i).first = ID_MAX}

\* a call of request() whose objects hold a value that is no geometry
InitSent == InitBox /\ sentinels # {}

\* the first call of getNearest on the Requestor
nearFirst == result = <<>> /\ getNearest

NextSent == NextBox \/ nearFirst

SpecSent == InitSent /\ [][NextSent]_vars

\* the least box around the points ps
BoxAround(ps) ==
    IF ps = {} THEN EmptyBox
    ELSE [ll |-> FPoint(CHOOSE x \in {p.x : p \in ps} :
                            \A p \in ps : x <= p.x,
                        CHOOSE y \in {p.y : p \in ps} :
                            \A p \in ps : y <= p.y),
          ur |-> FPoint(CHOOSE x \in {p.x : p \in ps} :
                            \A p \in ps : x >= p.x,
                        CHOOSE y \in {p.y : p \in ps} :
                            \A p \in ps : y >= p.y)]

\* the points among the objects, and the corners of the boxes of the lines
\* among the objects, the objects of the GID of no geometry left out
PointsOfObjects ==
    {At(points, At(objects, i).first) :
        i \in {k \in 0..(Len(objects) - 1) : At(objects, k).first < I_OFFSET}}

CornersOfObjects ==
    UNION {{getLineBBox(linePoints, lines, At(objects, i).first - I_OFFSET).ll,
            getLineBBox(linePoints, lines, At(objects, i).first - I_OFFSET).ur}
           : i \in {k \in 0..(Len(objects) - 1) :
                       /\ At(objects, k).first >= I_OFFSET
                       /\ At(objects, k).first < ID_MAX}}

\* C32: the payloads of pgrid are objects with a GID below I_OFFSET, those
\* of lgrid objects with a GID from I_OFFSET up to but not UINT_MAX; an
\* object with the GID UINT_MAX is in no grid and in neither bounding box;
\* and getNearest reads points and lines at indices inside the vectors only
\* and returns no such object
C32_SentinelsOut ==
    /\ \A i \in pgrid :
          i < Len(objects) /\ At(objects, i).first < I_OFFSET
    /\ \A i \in lgrid \cup lpgrid :
          /\ i < Len(objects)
          /\ At(objects, i).first >= I_OFFSET
          /\ At(objects, i).first < ID_MAX
    /\ sentinels \cap (pgrid \cup lgrid \cup lpgrid) = {}
    /\ tpc["t1"] # "boxes" =>
          /\ locals["t1"].pointBbox = padBox(BoxAround(PointsOfObjects), 1)
          /\ locals["t1"].lineBbox = padBox(BoxAround(CornersOfObjects), 1)
          /\ locals["t1"].numLinesAll =
                Len(objects) - Cardinality(sentinels)
                  - Cardinality({k \in 0..(Len(objects) - 1) :
                                    At(objects, k).first < I_OFFSET})
    /\ ready =>
          /\ \A i \in pgrid : At(objects, i).first < Len(points)
          /\ \A i \in lgrid : At(objects, i).first - I_OFFSET < Len(lines)
          /\ pgrid \cup lgrid = (0..(Len(objects) - 1)) \ sentinels
          /\ (result # <<>> /\ result.hit) => result.object \notin sentinels

\* a request() whose objects hold a point, a line and a value that is no
\* geometry has succeeded, and getNearest has returned a hit
C32_Witness ==
    /\ ready /\ sentinels # {} /\ pgrid # {} /\ lgrid # {}
    /\ At(objects, 0).first = ID_MAX
    /\ result # <<>> /\ result.hit

(***************************************************************************)
(* The line-pixel grid of one line                                         *)
(***************************************************************************)
\* line 105: the width and the height of a cell of the grids
GRID_SIZE == 65536

\* lines 228 and 231: the width and the height of a sub-cell
SUB_CELL == 256

\* Grid::getCellXFromX and Grid::getCellYFromY: the cell of the coordinate
\* c in a grid whose box has the lower left coordinate ll
getCellFrom(c, ll) == (c - ll) \div GRID_SIZE

\* what the conversion of a float outside the range of uint8_t, which is
\* undefined, does
Overflows == {"wraps", "saturates"}

\* a float converted to uint8_t
toUint8(v, how) ==
    IF v >= 0 /\ v <= 255 THEN v
    ELSE IF how = "wraps" THEN v % 256
    ELSE IF v < 0 THEN 0 ELSE 255

\* lines 226-231: sX and sY
subCell(c, ll, how) ==
    toUint8((c - ll + getCellFrom(c, ll) * GRID_SIZE) \div SUB_CELL, how)

\* lines 207-237: the vertices v of one line from the k-th on; lastX and
\* lastY are the sub-cell of the vertex added last; the payloads added to
\* _lpgrid, each with the cell it is added to and the vertex it comes from
RECURSIVE lpgridAdds(_, _, _, _, _, _)
lpgridAdds(v, k, ll, lastX, lastY, how) ==
    IF k > Len(v) THEN <<>>
    ELSE IF k = 1 \/ lastX # subCell(v[k].x, ll.x, how)
                 \/ lastY # subCell(v[k].y, ll.y, how)
    THEN <<[cellX |-> getCellFrom(v[k].x, ll.x),
            cellY |-> getCellFrom(v[k].y, ll.y),
            sX |-> subCell(v[k].x, ll.x, how),
            sY |-> subCell(v[k].y, ll.y, how),
            vertex |-> k]>>
         \o lpgridAdds(v, k + 1, ll, subCell(v[k].x, ll.x, how),
                       subCell(v[k].y, ll.y, how), how)
    ELSE lpgridAdds(v, k + 1, ll, lastX, lastY, how)

\* the coordinates of the vertices: two in one sub-cell, one in the next
\* sub-cell, and two in the next cell
PixXs == {0, 100, 300, GRID_SIZE, GRID_SIZE + 300}

PixYs == {0, 300}

PixLines ==
    UNION {[1..n -> {FPoint(x, y) : x \in PixXs, y \in PixYs}]
           : n \in 1..MaxVertices}

\* a Requestor whose one object is a line, before the third section
InitPix ==
    /\ rows = <<>> /\ pc = "ready" /\ BackendIdle /\ ParserNew
    /\ points = <<>>
    /\ \E l \in PixLines :
          /\ call = l
          /\ linePoints = insertedLine(l, FALSE)
    /\ lines = <<0>>
    /\ qidToId = <<>>
    /\ RelIdle
    /\ query = "q2" /\ ready = FALSE
    /\ objects = <<[first |-> I_OFFSET, second |-> 0]>>
    /\ pgrid = {} /\ lgrid = {} /\ lpgrid = <<>>
    /\ tpc = [t \in Threads |-> IF t = "t1" THEN "sections" ELSE "idle"]
    /\ targ = [t \in Threads |-> IF t = "t1" THEN "q2" ELSE ""]
    /\ tids = [t \in Threads |-> <<>>]
    /\ backendRequests = 1
    /\ ePtr = [t \in Threads |-> FALSE]
    /\ secs = [t \in Threads |-> {}]
    /\ disk = <<>> /\ peer = NoVectors
    /\ result = <<>> /\ locals = <<>>

\* lines 188-253: the third section goes through the line; the box of
\* _lpgrid is the padded box of the lines (lines 93-96 and 134-135)
lpgridSection(t) ==
    /\ tpc[t] = "sections" /\ "lpgrid" \notin secs[t]
    /\ \E how \in Overflows :
          lpgrid' =
             lpgrid \o lpgridAdds(
                 decodeLine(linePoints, At(lines, 0),
                            getLineEnd(linePoints, lines, 0), 0, 0, 0),
                 1, padBox(getLineBBox(linePoints, lines, 0), 1).ll,
                 0, 0, how)
    /\ secs' = [secs EXCEPT ![t] = @ \cup {"lpgrid"}]
    /\ UNCHANGED <<backendVars, parserVars, fileVars, vectorVars, idVars,
                   curRow, curUniqueGeom, overread, idsOutOfBounds, relVars,
                   query, ready, objects, pgrid, lgrid, threadVars,
                   transferVars, ePtr, diskVars, callVars>>

NextPix == \E t \in Threads : lpgridSection(t)

SpecPix == InitPix /\ [][NextPix]_vars

\* the cell and the sub-cell of the point p in a grid with the lower left
\* corner ll
Position(p, ll) ==
    <<getCellFrom(p.x, ll.x), getCellFrom(p.y, ll.y),
      ((p.x - ll.x) % GRID_SIZE) \div SUB_CELL,
      ((p.y - ll.y) % GRID_SIZE) \div SUB_CELL>>

\* the vertices of v from the k-th on that differ in position from the one
\* added last
RECURSIVE Emitted(_, _, _, _)
Emitted(v, k, ll, last) ==
    IF k > Len(v) THEN <<>>
    ELSE IF k = 1 \/ Position(v[k], ll) # last
    THEN <<k>> \o Emitted(v, k + 1, ll, Position(v[k], ll))
    ELSE Emitted(v, k + 1, ll, last)

=============================================================================
